---- MODULE Spec2Model ----
(***************************************************************************)
(* Model of SolSet's calculation layer, src/src/lib/sunCalc.js (the first  *)
(* of the two copies in that file, lines 1-408, which is the one carrying  *)
(* the input validation and the try/catch blocks), and of the orientation  *)
(* label and house shadow of the house layout component,                   *)
(* src/unnamed/part_001.                                                   *)
(*                                                                         *)
(* Time is counted in whole minutes.  Instant 0 is 00:00 host standard     *)
(* time of the calendar day the caller's date falls on ("day 0"); the host *)
(* clock reads  instant + daylight-saving shift.  The suncalc library is   *)
(* not part of the repository: getTimes and getPosition are modelled as    *)
(* the environment, which chooses their results within what the library    *)
(* can return.  Hours are exact rationals (minutes over `steps`), where    *)
(* the code uses IEEE doubles.                                             *)
(***************************************************************************)
EXTENDS Integers, Sequences, FiniteSets, TLC

VARIABLES
  call,     \* the exported function being called
  zone,     \* the host's time zone (what Date's local-time methods use)
  args,     \* the arguments of the call
  env,      \* what the suncalc library answered during the call
  pc,       \* "start" before the call, "done" after it returned or threw
  outcome   \* [thrown, value]: the call's return value, or a propagated fault

vars == <<call, zone, args, env, pc, outcome>>

\* Largest step count explored.
MaxSteps == 3

MinutesPerHour == 60
MinutesPerDay == 24 * 60

---------------------------------------------------------------------------
(* JavaScript numbers that may be NaN: instants (Date.getTime) and steps.  *)

Num(n) == [k |-> "num", v |-> n]
NaN == [k |-> "nan", v |-> 0]

\* isNaN on such a value (lines 46, 65, 99)
IsNaNNum(x) == x.k = "nan"

(* Values a caller may pass as lat or lng, by their conversion behaviour.  *)
CoordKinds ==
  { "finite", "NaN", "Infinity", "-Infinity", "undefined", "null",
    "numericString", "prefixString", "junkString", "emptyString" }

\* Number(x): "45.5" -> 45.5, "12abc" -> NaN, null -> 0, "" -> 0
ToNumber(c) ==
  CASE c \in {"finite", "numericString", "null", "emptyString"} -> "finite"
    [] c \in {"Infinity", "-Infinity"} -> c
    [] OTHER -> "NaN"

\* parseFloat(x): "12abc" -> 12, null -> NaN, "" -> NaN
ParseFloat(c) ==
  CASE c \in {"finite", "numericString", "prefixString"} -> "finite"
    [] c \in {"Infinity", "-Infinity"} -> c
    [] OTHER -> "NaN"

\* the global isNaN(x), which converts with Number first (line 347)
IsNaN(c) == ToNumber(c) = "NaN"

---------------------------------------------------------------------------
(* The host clock.  A zone is fixed, or has one daylight-saving change at  *)
(* 02:00 on day `day`: "spring" skips the clock readings 02:00-02:59,      *)
(* "fall" repeats 01:00-01:59.                                             *)

Zones ==
  { [kind |-> "fixed", day |-> 0] } \cup
  [kind : {"spring", "fall"}, day : {0, 1}]

\* the instant of the zone's change
TransitionInstant(z) ==
  z.day * MinutesPerDay + (IF z.kind = "spring" THEN 2 ELSE 1) * MinutesPerHour

\* minutes the host clock is ahead of standard time at instant t
DstShift(z, t) ==
  CASE z.kind = "spring" -> IF t >= TransitionInstant(z) THEN MinutesPerHour ELSE 0
    [] z.kind = "fall" -> IF t < TransitionInstant(z) THEN MinutesPerHour ELSE 0
    [] OTHER -> 0

\* the host clock reading of instant t, in minutes since 00:00 of day 0
Wall(z, t) == t + DstShift(z, t)

\* ECMAScript UTC(t): the instant of a clock reading.  A repeated reading
\* is the earlier instant, a skipped one is read with the offset before the
\* change.
ToInstant(z, w) ==
  LET cands == { t \in {w - MinutesPerHour, w} : Wall(z, t) = w }
  IN IF cands = {} THEN w
     ELSE CHOOSE t \in cands : \A u \in cands : t <= u

\* the calendar day of an instant on the host clock
LocalDay(z, t) == Wall(z, t) \div MinutesPerDay

\* new Date(d.getFullYear(), d.getMonth(), d.getDate()) (lines 58, 108)
DatePortion(z, t) == ToInstant(z, LocalDay(z, t) * MinutesPerDay)

\* d.getHours() * 60 + d.getMinutes()
ClockMinutes(z, t) == Wall(z, t) % MinutesPerDay

\* d.setHours(h, m, 0, 0): the day of d on the host clock, at h:m
SetHours(z, t, h, m) ==
  ToInstant(z, LocalDay(z, t) * MinutesPerDay + h * MinutesPerHour + m)

\* d.setDate(d.getDate() + n): the clock reading of d, n days later
AddDays(z, t, n) == ToInstant(z, Wall(z, t) + n * MinutesPerDay)

---------------------------------------------------------------------------
(* The suncalc library (imported at line 1), as the environment.           *)

Return(v) == [thrown |-> FALSE, value |-> v]
Thrown == [thrown |-> TRUE, value |-> <<>>]

\* the value a caller may pass as a date: a Date (at instant t, NaN for an
\* Invalid Date), null, undefined, or something that is no Date
DateValue(kind, t) == [kind |-> kind, t |-> t]

ZeroPosition == [azimuth |-> "0", altitude |-> "0"]
NaNPosition == [azimuth |-> "NaN", altitude |-> "NaN"]

\* SunCalc.getPosition(date, lat, lng) on numbers lat, lng: date.valueOf()
\* is a TypeError on null and undefined; NaN or infinite input gives NaN
\* angles; otherwise a finite azimuth and the altitude `alt` the sun has.
SunCalcGetPosition(date, nlat, nlng, alt) ==
  IF date.kind \in {"null", "undefined"} THEN Thrown
  ELSE IF date.kind # "Date" \/ IsNaNNum(date.t)
          \/ nlat # "finite" \/ nlng # "finite"
    THEN Return(NaNPosition)
    ELSE Return([azimuth |-> "finite", altitude |-> alt])

\* SunCalc.getTimes(date, lat, lng): NaN sunrise and sunset when the sun
\* does not cross the horizon that day or an input is not a finite number,
\* otherwise the instants `choice` the library computed.
PolarTimes == [sunrise |-> NaN, sunset |-> NaN]

SunCalcGetTimes(date, lat, lng, choice) ==
  IF IsNaNNum(date) \/ ToNumber(lat) # "finite" \/ ToNumber(lng) # "finite"
    THEN PolarTimes
    ELSE choice

\* Sunrise instants and day lengths (sunset - sunrise, both cut to whole
\* minutes) the library is asked to produce.
RiseChoices == {-1000, -30, 0, 10, 110, 361, 700}
LengthChoices == {0, 1, 60, 120, 725, 1439, 1440}

\* The library takes the solar transit nearest to the instant it is given
\* (within half a day plus the equation of time) and puts sunrise and
\* sunset symmetrically around it.
NearestTransit == MinutesPerDay \div 2 + 16

TimesChoices(date) ==
  { PolarTimes } \cup
  { [sunrise |-> Num(r), sunset |-> Num(r + len)] :
      <<r, len>> \in { p \in RiseChoices \X LengthChoices :
         /\ 2 * p[1] + p[2] >= 2 * (date - NearestTransit)
         /\ 2 * p[1] + p[2] <= 2 * (date + NearestTransit) } }

---------------------------------------------------------------------------
(* getSunTimes, getSunPosition                                             *)

\* lines 10-12
GetSunTimes(date, lat, lng, choice) == SunCalcGetTimes(date, lat, lng, choice)

\* the guard of line 26
CoordinatesRejected(lat, lng) == ToNumber(lat) = "NaN" \/ ToNumber(lng) = "NaN"

\* lines 21-34; `called` tells whether the library was asked
GetSunPosition(dateTime, lat, lng, alt) ==
  IF CoordinatesRejected(lat, lng)
    THEN [thrown |-> FALSE, value |-> ZeroPosition, called |-> FALSE]
    ELSE LET r == SunCalcGetPosition(dateTime, ToNumber(lat), ToNumber(lng), alt)
         IN [thrown |-> r.thrown, value |-> r.value, called |-> TRUE]

---------------------------------------------------------------------------
(* calculateTrajectoryPoints, lines 97-157                                 *)

\* the loop of line 120 with its last sample dropped (i < steps)
LoopRunsExclusive(i, steps) == i < steps

\* the loop condition of line 120
LoopRuns(i, steps) == i <= steps

\* Math.round on a non-negative rational n/d
RoundHalfUp(n, d) == (2 * n + d) \div (2 * d)

\* Lines 121-134 for sample i: hour = startHour + i * stepSize is
\* (startMin * steps + i * rangeMin) / steps minutes.
PointTime(z, baseDate, startMin, rangeMin, steps, i) ==
  LET q == startMin * steps + i * rangeMin                     \* line 121
      adjusted == q % (MinutesPerDay * steps)                  \* line 124
      dayOffset == q \div (MinutesPerDay * steps)              \* line 125
      h == adjusted \div (MinutesPerHour * steps)
      m == RoundHalfUp(adjusted % (MinutesPerHour * steps), steps)
      t == SetHours(z, baseDate, h, m)                         \* line 129
  IN IF dayOffset > 0 THEN AddDays(z, t, dayOffset) ELSE t     \* lines 132-134

\* a trajectory point, lines 139-143
Point(time, position) ==
  [time |-> time, azimuth |-> position.azimuth, altitude |-> position.altitude]

\* Lines 120-150 from sample i on.  The lookup of a sample in throwsAt
\* throws; the catch of line 144 skips that sample.
RECURSIVE TrajectoryLoop(_, _, _, _, _, _, _, _, _, _)
TrajectoryLoop(z, baseDate, lat, lng, startMin, rangeMin, steps, i, throwsAt, alt) ==
  IF ~LoopRuns(i, steps) THEN <<>>
  ELSE LET time == IF steps = 0 THEN NaN   \* 0 * Infinity
                   ELSE Num(PointTime(z, baseDate, startMin, rangeMin, steps, i))
           looked == IF i \in throwsAt THEN Thrown
                     ELSE GetSunPosition(DateValue("Date", time), lat, lng, alt)
           rest == TrajectoryLoop(z, baseDate, lat, lng, startMin, rangeMin,
                                  steps, i + 1, throwsAt, alt)
       IN IF looked.thrown THEN rest
          ELSE <<Point(time, looked.value)>> \o rest

\* line 112 rejecting negative ranges only (hourRange < 0)
HourRangeRejectedNegativeOnly(startMin, endMin) == endMin - startMin < 0

\* the guard of line 112
HourRangeRejected(startMin, endMin) == endMin - startMin <= 0

\* lines 97-157; date is an instant (or NaN), steps a number (or NaN)
CalculateTrajectoryPoints(z, date, lat, lng, startMin, endMin, steps, throwsAt, alt) ==
  IF IsNaNNum(date) \/ IsNaNNum(steps) THEN <<>>                \* line 99
  ELSE IF HourRangeRejected(startMin, endMin) THEN <<>>         \* line 112
  ELSE TrajectoryLoop(z, DatePortion(z, date.v), lat, lng, startMin,
                      endMin - startMin, steps.v, 0, throwsAt, alt)

---------------------------------------------------------------------------
(* getSunTrajectory, lines 44-91                                           *)

\* try { body } catch { return dflt }
Catch(body, dflt) == IF body.thrown THEN Return(dflt) ELSE body

\* the guard of line 46
DateRejected(date) == date.kind # "Date" \/ IsNaNNum(date.t)

\* line 51 testing with Number, as line 26 does, instead of parseFloat
CoordinatesUnparseableByNumber(lat, lng) ==
  ToNumber(lat) = "NaN" \/ ToNumber(lng) = "NaN"

\* the guard of line 51
CoordinatesUnparseable(lat, lng) ==
  ParseFloat(lat) = "NaN" \/ ParseFloat(lng) = "NaN"

\* the test of line 65
IsPolar(times) == IsNaNNum(times.sunrise) \/ IsNaNNum(times.sunset)

\* the test of line 70
PolarDay(position) == position.altitude = "positive"

\* line 72 sampling half a day only
PolarWindowHalfDay == <<0, 12 * MinutesPerHour>>

\* the window of line 72, in minutes
PolarWindow == <<0, 24 * MinutesPerHour>>

\* line 84
AdjustedSunset(sunriseMin, sunsetMin) ==
  IF sunsetMin < sunriseMin THEN sunsetMin + MinutesPerDay ELSE sunsetMin

\* Lines 57-86, the body of the try.  e is what the library answers:
\* e.times from getTimes (e.timesThrows: it throws instead), e.alt the
\* altitude of the sun, e.throwsAt the samples whose lookup throws.
TrajectoryBody(z, date, lat, lng, steps, e) ==
  IF date.kind # "Date" THEN Thrown   \* date.getFullYear is a TypeError
  ELSE IF e.timesThrows THEN Thrown
  ELSE
    LET cleanDate == IF IsNaNNum(date.t) THEN NaN
                     ELSE Num(DatePortion(z, date.t.v))         \* line 58
        times == GetSunTimes(cleanDate, lat, lng, e.times)      \* line 60
    IN IF IsPolar(times)
       THEN LET noonDate == IF IsNaNNum(cleanDate) THEN NaN
                            ELSE Num(SetHours(z, cleanDate.v, 12, 0))
                noon == GetSunPosition(DateValue("Date", noonDate), lat, lng, e.alt)
            IN IF noon.thrown THEN Thrown
               ELSE IF PolarDay(noon.value)
                 THEN Return(CalculateTrajectoryPoints(z, cleanDate, lat, lng,
                        PolarWindow[1], PolarWindow[2], steps, e.throwsAt, e.alt))
                 ELSE Return(<<>>)
       ELSE LET sunriseMin == ClockMinutes(z, times.sunrise.v)  \* line 80
                sunsetMin == ClockMinutes(z, times.sunset.v)    \* line 81
            IN Return(CalculateTrajectoryPoints(z, cleanDate, lat, lng,
                 sunriseMin, AdjustedSunset(sunriseMin, sunsetMin),
                 steps, e.throwsAt, e.alt))

GetSunTrajectory(z, date, lat, lng, steps, e) ==
  IF DateRejected(date) THEN Return(<<>>)
  ELSE IF CoordinatesUnparseable(lat, lng) THEN Return(<<>>)
  ELSE Catch(TrajectoryBody(z, date, lat, lng, steps, e), <<>>)

---------------------------------------------------------------------------
(* Callers' arguments and the library's answers                            *)

\* instants of day 0 at which the caller's date may lie
DateInstants == {0, 615}

DateChoices ==
  { DateValue("Date", Num(t)) : t \in DateInstants } \cup
  { DateValue("Date", NaN), DateValue("null", NaN),
    DateValue("undefined", NaN), DateValue("string", NaN) }

\* lat and lng, at most one of them not a plain finite number
CoordChoices ==
  { p \in CoordKinds \X CoordKinds : p[1] = "finite" \/ p[2] = "finite" }

StepChoices == { Num(n) : n \in 0..MaxSteps } \cup { NaN }

Altitudes == {"positive", "nonpositive"}

\* sets of samples
SampleSets(steps) ==
  IF IsNaNNum(steps) THEN { {} } ELSE SUBSET (0..steps.v)

\* what the library may answer during one getSunTrajectory call
TrajectoryEnvs(z, date, steps) ==
  LET clean == IF date.kind = "Date" /\ ~IsNaNNum(date.t)
               THEN DatePortion(z, date.t.v) ELSE 0
  IN [times : TimesChoices(clean), alt : Altitudes,
      throwsAt : SampleSets(steps), timesThrows : {FALSE}]
     \cup { [times |-> PolarTimes, alt |-> "positive", throwsAt |-> {},
             timesThrows |-> TRUE] }

NoEnv == [times |-> PolarTimes, alt |-> "positive", throwsAt |-> {},
          timesThrows |-> FALSE]
NoOutcome == [thrown |-> FALSE, value |-> <<>>]

TrajectoryArgs ==
  [date : DateChoices, coord : CoordChoices, steps : StepChoices]

InitTrajectory ==
  /\ call = "getSunTrajectory"
  /\ zone \in Zones
  /\ args \in TrajectoryArgs
  /\ env = NoEnv
  /\ pc = "start"
  /\ outcome = NoOutcome

CallGetSunTrajectory ==
  /\ pc = "start"
  /\ call = "getSunTrajectory"
  /\ \E e \in TrajectoryEnvs(zone, args.date, args.steps) :
       /\ env' = e
       /\ outcome' = GetSunTrajectory(zone, args.date, args.coord[1],
                                      args.coord[2], args.steps, e)
  /\ pc' = "done"
  /\ UNCHANGED <<call, zone, args>>

NextTrajectory == CallGetSunTrajectory

SpecTrajectory == InitTrajectory /\ [][NextTrajectory]_vars

---------------------------------------------------------------------------
(* A getSunPosition call                                                   *)

PositionArgs == [date : DateChoices, coord : CoordKinds \X CoordKinds]

InitPosition ==
  /\ call = "getSunPosition"
  /\ zone = [kind |-> "fixed", day |-> 0]
  /\ args \in PositionArgs
  /\ env = NoEnv
  /\ pc = "start"
  /\ outcome = NoOutcome

\* env.called: whether the call reached SunCalc.getPosition
CallGetSunPosition ==
  /\ pc = "start"
  /\ call = "getSunPosition"
  /\ \E alt \in Altitudes :
       LET r == GetSunPosition(args.date, args.coord[1], args.coord[2], alt)
       IN /\ env' = [alt |-> alt, called |-> r.called]
          /\ outcome' = [thrown |-> r.thrown, value |-> r.value]
  /\ pc' = "done"
  /\ UNCHANGED <<call, zone, args>>

NextPosition == CallGetSunPosition

SpecPosition == InitPosition /\ [][NextPosition]_vars

---------------------------------------------------------------------------
(* getSeasonalTrajectories, lines 345-408                                  *)

Seasons == {"summerSolstice", "winterSolstice", "springEquinox", "fallEquinox"}

\* values a caller may pass as the year
YearKinds ==
  { "finite", "NaN", "undefined", "null", "numericString", "junkString",
    "Infinity" }

\* the default parameter of line 345 replaces undefined by the current year
YearOrDefault(year) == IF year = "undefined" THEN "finite" ELSE year

\* the guard of line 347
SeasonalRejected(lat, lng, year, steps) ==
  IsNaN(lat) \/ IsNaN(lng) \/ IsNaN(YearOrDefault(year)) \/ IsNaNNum(steps)

\* new Date(year, month, day), lines 354-357: 00:00 of that day (day 0 of
\* the season's own trajectory), an Invalid Date for a year out of range
SeasonDate(year, season) ==
  [kind |-> "Date",
   t |-> IF ToNumber(YearOrDefault(year)) = "finite" THEN Num(0) ELSE NaN,
   day |-> CASE season = "summerSolstice" -> <<5, 21>>
             [] season = "winterSolstice" -> <<11, 21>>
             [] season = "springEquinox" -> <<2, 20>>
             [] OTHER -> <<8, 22>>]

SeasonLabel(season) ==
  CASE season = "summerSolstice" -> "Summer Solstice"
    [] season = "winterSolstice" -> "Winter Solstice"
    [] season = "springEquinox" -> "Spring Equinox"
    [] OTHER -> "Fall Equinox"

SeasonColor(season) ==
  CASE season = "summerSolstice" -> "#FF5722"
    [] season = "winterSolstice" -> "#2196F3"
    [] season = "springEquinox" -> "#4CAF50"
    [] OTHER -> "#FF9800"

\* lines 360-376 without the try/catch: a fault goes on to the caller
SafeGetTrajectoryUnguarded(z, date, label, lat, lng, steps, e, escapes) ==
  IF escapes THEN Thrown
  ELSE LET got == GetSunTrajectory(z, DateValue("Date", date.t), lat, lng, steps, e)
       IN Return([date |-> date, label |-> label, points |-> got.value])

\* Lines 360-376.  escapes: getSunTrajectory itself throws.
SafeGetTrajectory(z, date, label, lat, lng, steps, e, escapes) ==
  LET got == IF escapes THEN Thrown
             ELSE GetSunTrajectory(z, DateValue("Date", date.t), lat, lng, steps, e)
  IN IF got.thrown
       THEN Return([date |-> date, label |-> label, points |-> <<>>])
       ELSE Return([date |-> date, label |-> label, points |-> got.value])

\* an entry that is safeGetTrajectory's object alone, color lost
SeasonEntrySpreadOnly(date, label, color, safe) == safe

\* one entry of the object of lines 378-403: date, label, color, then the
\* spread of safeGetTrajectory's object
SeasonEntry(date, label, color, safe) ==
  safe @@ [date |-> date, label |-> label, color |-> color]

NullResult == [null |-> TRUE, seasons |-> <<>>]

\* Lines 352-407.  es[s] is what the library answers for season s,
\* escaping the seasons whose getSunTrajectory call throws.
SeasonalBody(z, lat, lng, year, steps, es, escaping) ==
  LET safe(s) == SafeGetTrajectory(z, SeasonDate(year, s), SeasonLabel(s),
                                   lat, lng, steps, es[s], s \in escaping)
  IN IF \E s \in Seasons : safe(s).thrown THEN Thrown
     ELSE Return([null |-> FALSE,
                  seasons |-> [s \in Seasons |->
                     SeasonEntry(SeasonDate(year, s), SeasonLabel(s),
                                 SeasonColor(s), safe(s).value)]])

GetSeasonalTrajectories(z, lat, lng, year, steps, es, escaping) ==
  IF SeasonalRejected(lat, lng, year, steps) THEN Return(NullResult)
  ELSE Catch(SeasonalBody(z, lat, lng, year, steps, es, escaping), NullResult)

\* the days the library may report for a season: an ordinary day, the
\* midnight sun, the polar night
OrdinaryDay == [sunrise |-> Num(361), sunset |-> Num(1086)]
DayKinds == {"ordinary", "polarDay", "polarNight"}

DayEnv(kind, timesThrows) ==
  [times |-> IF kind = "ordinary" THEN OrdinaryDay ELSE PolarTimes,
   alt |-> IF kind = "polarNight" THEN "nonpositive" ELSE "positive",
   throwsAt |-> {},
   timesThrows |-> timesThrows]

\* days: each season's day; failing: the seasons whose computation fails,
\* inside getSunTrajectory (fault "times": getSunTimes throws) or out of it
\* (fault "escape")
SeasonalEnvs ==
  [days : [Seasons -> DayKinds], failing : SUBSET Seasons,
   fault : {"times", "escape"}]

CalmEnv ==
  [days |-> [s \in Seasons |-> "ordinary"], failing |-> {}, fault |-> "times"]

SeasonEnvs(e) ==
  [s \in Seasons |-> DayEnv(e.days[s], e.fault = "times" /\ s \in e.failing)]

Escaping(e) == IF e.fault = "escape" THEN e.failing ELSE {}

\* arguments that are plain numbers (or numeric strings)
PlainNumbers == {"finite", "numericString"}

SeasonalArgs ==
  [coord : CoordChoices, year : YearKinds,
   steps : {NaN, Num(1), Num(MaxSteps)}]

InitSeasonal ==
  /\ call = "getSeasonalTrajectories"
  /\ zone = [kind |-> "fixed", day |-> 0]
  /\ args \in SeasonalArgs
  /\ env = NoEnv
  /\ pc = "start"
  /\ outcome = NoOutcome

\* The library's answers are enumerated in full for plain numeric
\* arguments; otherwise every season is an ordinary day without a fault,
\* or every season fails.
SeasonalEnvChoices(a) ==
  IF a.coord[1] \in PlainNumbers /\ a.coord[2] \in PlainNumbers
     /\ a.year \in PlainNumbers \cup {"undefined"}
    THEN SeasonalEnvs
    ELSE { CalmEnv, [CalmEnv EXCEPT !.failing = Seasons, !.fault = "escape"] }

CallGetSeasonalTrajectories ==
  /\ pc = "start"
  /\ call = "getSeasonalTrajectories"
  /\ \E e \in SeasonalEnvChoices(args) :
       /\ env' = e
       /\ outcome' = GetSeasonalTrajectories(zone, args.coord[1], args.coord[2],
                        args.year, args.steps, SeasonEnvs(e), Escaping(e))
  /\ pc' = "done"
  /\ UNCHANGED <<call, zone, args>>

NextSeasonal == CallGetSeasonalTrajectories

SpecSeasonal == InitSeasonal /\ [][NextSeasonal]_vars

---------------------------------------------------------------------------
(* Any call of the three exported functions                                *)

Init == InitPosition \/ InitTrajectory \/ InitSeasonal

Next ==
  \/ CallGetSunPosition
  \/ CallGetSunTrajectory
  \/ CallGetSeasonalTrajectories

Spec == Init /\ [][Next]_vars

---------------------------------------------------------------------------
(* Properties of getSunTrajectory, checked under SpecTrajectory            *)

TrajectoryDone == pc = "done" /\ call = "getSunTrajectory"

\* the returned points
Points == outcome.value

\* the date is a valid Date and lat, lng are plain numbers
PlainCall ==
  /\ args.date.kind = "Date"
  /\ ~IsNaNNum(args.date.t)
  /\ args.coord[1] \in PlainNumbers
  /\ args.coord[2] \in PlainNumbers

\* steps is a positive integer
PositiveSteps == ~IsNaNNum(args.steps) /\ args.steps.v >= 1

\* the library returned valid sunrise and sunset instants
ValidSunTimes == PlainCall /\ ~env.timesThrows /\ ~IsPolar(env.times)

\* the hour range of the call, in minutes: sunset clock reading (24 h
\* added when it is below the sunrise reading) minus sunrise clock reading
SunriseClock == ClockMinutes(zone, env.times.sunrise.v)
SunsetClock == ClockMinutes(zone, env.times.sunset.v)
HourRange ==
  (IF SunsetClock < SunriseClock THEN SunsetClock + MinutesPerDay ELSE SunsetClock)
  - SunriseClock

\* values parseFloat turns into NaN
NotParseable == {"NaN", "undefined", "null", "junkString", "emptyString"}

\* times never decrease along the list
Chronological(points) ==
  \A j \in 1..(Len(points) - 1) :
    ~IsNaNNum(points[j].time) /\ ~IsNaNNum(points[j + 1].time)
      => points[j].time.v <= points[j + 1].time.v

\* C1: for every date, coordinate and step count N, getSunTrajectory
\* returns at most N+1 points and the points' times never decrease in list
\* order.  (The code violates the order on a host whose clock skips an hour
\* inside the sampled window.)
C1_AtMostStepsPlusOneChronological ==
  TrajectoryDone /\ ~IsNaNNum(args.steps) =>
    /\ Len(Points) <= args.steps.v + 1
    /\ Chronological(Points)

C3_FirstIsSunriseLastIsSunset ==
  TrajectoryDone /\ ValidSunTimes /\ PositiveSteps /\ env.throwsAt = {}
      /\ zone.kind = "fixed" /\ Points # <<>> =>
    /\ Points[1].time = env.times.sunrise
    /\ Points[Len(Points)].time = env.times.sunset

C5_InvalidDateOrCoordinateGivesEmpty ==
  TrajectoryDone
      /\ (\/ args.date.kind # "Date"
          \/ IsNaNNum(args.date.t)
          \/ args.coord[1] \in NotParseable
          \/ args.coord[2] \in NotParseable) =>
    ~outcome.thrown /\ Points = <<>>

\* C5's case: a call with lat = null on a day with an ordinary sunrise and
\* sunset, which returned nothing
C5_Witness ==
  /\ TrajectoryDone
  /\ args.date.kind = "Date" /\ ~IsNaNNum(args.date.t)
  /\ args.coord = <<"null", "finite">>
  /\ ~env.timesThrows /\ ~IsPolar(env.times) /\ HourRange > 0
  /\ PositiveSteps
  /\ ~outcome.thrown /\ Points = <<>>

\* the trajectory the same call returns when no lookup throws
WithoutThrows ==
  GetSunTrajectory(zone, args.date, args.coord[1], args.coord[2], args.steps,
                   [env EXCEPT !.throwsAt = {}]).value

\* the members of seq whose index (from 0) is not in skipped
RECURSIVE Keep(_, _, _)
Keep(seq, skipped, i) ==
  IF i >= Len(seq) THEN <<>>
  ELSE (IF i \in skipped THEN <<>> ELSE <<seq[i + 1]>>) \o Keep(seq, skipped, i + 1)

\* C10: when the lookup throws for some of the steps+1 samples, exactly
\* those are skipped and the points of all the others are returned, in
\* chronological order.
C10_ThrowingSamplesSkippedRestChronological ==
  TrajectoryDone /\ PlainCall /\ ~env.timesThrows /\ PositiveSteps
      /\ env.throwsAt # {} =>
    /\ Points = Keep(WithoutThrows, env.throwsAt, 0)
    /\ Chronological(Points)

\* The part of C10 the code satisfies: the points returned are those of
\* the samples whose lookup did not throw, in sample order.
SkippedSamplesOnly ==
  TrajectoryDone /\ PlainCall /\ ~env.timesThrows /\ PositiveSteps =>
    Points = Keep(WithoutThrows, env.throwsAt, 0)

\* C11: whenever the hour range endHour - startHour is zero or negative
\* (sunrise and sunset in the same clock minute), the trajectory is empty:
\* no sample point is produced, and nothing is thrown.
C11_EmptyHourRangeGivesNoPoint ==
  TrajectoryDone /\ ValidSunTimes /\ HourRange <= 0 =>
    ~outcome.thrown /\ Points = <<>>

\* C11's case: sunrise and sunset at the same instant, sampled with
\* several steps and no throwing lookup, gave no point
C11_Witness ==
  /\ TrajectoryDone /\ ValidSunTimes /\ env.throwsAt = {}
  /\ args.steps.v = MaxSteps
  /\ env.times.sunrise = env.times.sunset
  /\ HourRange = 0
  /\ Points = <<>>

---------------------------------------------------------------------------
(* Properties of getSunPosition, checked under SpecPosition                *)

PositionDone == pc = "done" /\ call = "getSunPosition"

\* lat or lng values that are not finite numbers
NotFinite ==
  {"NaN", "junkString", "prefixString", "undefined", "Infinity", "-Infinity"}

\* C7: getSunPosition returns {azimuth: 0, altitude: 0} whenever lat or lng
\* is not a finite number (NaN, non-numeric string, undefined, +-Infinity),
\* and only then bypasses the ephemeris.  Stated for calls with a valid Date.
C7_ZeroPositionIffNotFinite ==
  PositionDone /\ args.date.kind = "Date" /\ ~IsNaNNum(args.date.t) =>
    /\ (args.coord[1] \in NotFinite \/ args.coord[2] \in NotFinite) =>
         ~env.called /\ ~outcome.thrown /\ outcome.value = ZeroPosition
    /\ ~env.called =>
         args.coord[1] \notin PlainNumbers \/ args.coord[2] \notin PlainNumbers

---------------------------------------------------------------------------
(* Properties of getSeasonalTrajectories, checked under SpecSeasonal       *)

SeasonalDone == pc = "done" /\ call = "getSeasonalTrajectories"

\* C8: getSeasonalTrajectories returns null only when lat, lng, year or
\* steps is invalid; for every valid input it returns the four entries
\* summerSolstice, winterSolstice, springEquinox and fallEquinox, each with
\* exactly date, label, color and points.
C8_NullOnlyForInvalidElseFourEntries ==
  SeasonalDone =>
    /\ ~outcome.thrown
    /\ outcome.value.null =>
         \/ args.coord[1] \notin PlainNumbers
         \/ args.coord[2] \notin PlainNumbers
         \/ args.year \notin PlainNumbers \cup {"undefined"}
         \/ IsNaNNum(args.steps)
    /\ ~outcome.value.null =>
         /\ DOMAIN outcome.value.seasons = Seasons
         /\ \A s \in Seasons :
              LET entry == outcome.value.seasons[s]
              IN /\ DOMAIN entry = {"date", "label", "color", "points"}
                 /\ entry.date = SeasonDate(args.year, s)
                 /\ entry.label = SeasonLabel(s)
                 /\ entry.color = SeasonColor(s)
                 /\ Len(entry.points) >= 0

\* C8's case: a call with plain numeric arguments in which every season's
\* computation fails still returns the four entries
C8_Witness ==
  /\ SeasonalDone
  /\ args.coord = <<"finite", "finite">> /\ args.year = "finite"
  /\ ~IsNaNNum(args.steps)
  /\ env.failing = Seasons
  /\ ~outcome.value.null
  /\ DOMAIN outcome.value.seasons = Seasons

\* the result of the same call when no season fails
WithoutFailure ==
  GetSeasonalTrajectories(zone, args.coord[1], args.coord[2], args.year,
      args.steps, SeasonEnvs([env EXCEPT !.failing = {}]), {}).value

\* C9: a failure while computing one season's trajectory does not prevent
\* the others from being returned: the failed season keeps its date, label
\* and color with an empty points list, and the other seasons' points are
\* those of the call without the failure.
C9_FailedSeasonIsolated ==
  SeasonalDone /\ ~SeasonalRejected(args.coord[1], args.coord[2], args.year, args.steps) =>
    /\ ~outcome.thrown /\ ~outcome.value.null
    /\ \A s \in Seasons :
         LET entry == outcome.value.seasons[s]
         IN IF s \in env.failing
              THEN /\ entry.points = <<>>
                   /\ entry.date = SeasonDate(args.year, s)
                   /\ entry.label = SeasonLabel(s)
                   /\ entry.color = SeasonColor(s)
              ELSE entry.points = WithoutFailure.seasons[s].points

\* C9's case: exactly one season failed by a fault escaping
\* getSunTrajectory, and another season still has its points
C9_Witness ==
  /\ SeasonalDone
  /\ env.fault = "escape" /\ env.failing = {"winterSolstice"}
  /\ ~outcome.value.null
  /\ outcome.value.seasons["winterSolstice"].points = <<>>
  /\ Len(outcome.value.seasons["summerSolstice"].points) = MaxSteps + 1

---------------------------------------------------------------------------
(* A property of all three functions, checked under Spec                   *)

\* coordinate values that are NaN or not finite
NaNOrInfinite == {"NaN", "Infinity", "-Infinity"}

InvalidCoordinate ==
  args.coord[1] \in NaNOrInfinite \/ args.coord[2] \in NaNOrInfinite

InvalidDate ==
  args.date.kind \in {"null", "undefined"}
    \/ (args.date.kind = "Date" /\ IsNaNNum(args.date.t))

\* C6: for every invalid numeric input (NaN or non-finite coordinate,
\* null/undefined/Invalid date, NaN step count) getSunPosition,
\* getSunTrajectory and getSeasonalTrajectories return their safe default
\* (zero position, empty trajectory, null) and never throw.
C6_InvalidInputGivesSafeDefault ==
  /\ PositionDone /\ (InvalidCoordinate \/ InvalidDate) =>
       ~outcome.thrown /\ outcome.value = ZeroPosition
  /\ TrajectoryDone /\ (InvalidCoordinate \/ InvalidDate \/ IsNaNNum(args.steps)) =>
       ~outcome.thrown /\ outcome.value = <<>>
  /\ SeasonalDone /\ (InvalidCoordinate \/ IsNaNNum(args.steps)) =>
       ~outcome.thrown /\ outcome.value.null

---------------------------------------------------------------------------
(* calculateOptimalHouseOrientation, lines 241-335.  Angles are in whole   *)
(* degrees where the library's radians are converted (line 299), weights   *)
(* are exact fractions: the season weight in tenths, the time weight in    *)
(* eighths, the sine of the altitude in halves.                            *)

\* the months of sampleDates, lines 243-250 (each the 21st, host time)
SampleMonths == <<0, 2, 4, 6, 8, 10>>

\* line 277
Hours == <<7, 8, 9, 10, 11, 12, 13, 14, 15, 16, 17>>

Abs(x) == IF x < 0 THEN -x ELSE x

\* JavaScript's a % m for m > 0: the remainder has the sign of a
JSRem(a, m) == IF a >= 0 THEN a % m ELSE -((-a) % m)

RECURSIVE GCD(_, _)
GCD(a, b) == IF b = 0 THEN a ELSE GCD(b, a % b)

\* the number n/d (d > 0) in lowest terms
Fraction(n, d) ==
  LET g == GCD(Abs(n), d) IN [n |-> n \div g, d |-> d \div g]

\* line 253
IsNorthernHemisphere(lat) == lat > 0

\* line 256 with due south in both hemispheres
BaseOrientationSouthOnly(lat) == 180

\* line 256
BaseOrientation(lat) == IF IsNorthernHemisphere(lat) THEN 180 ELSE 0

\* line 265
IsSummer(month) == month >= 4 /\ month <= 8

\* lines 266-274, in tenths
SeasonWeight(lat, month) ==
  IF IsNorthernHemisphere(lat)
    THEN (IF IsSummer(month) THEN 7 ELSE 13)
    ELSE (IF IsSummer(month) THEN 13 ELSE 7)

\* line 293, in eighths
\* a time weight falling twice as fast, which is negative at 7 and 17
TimeWeightSteeper(hour) == 8 - 2 * Abs(hour - 12)

TimeWeight(hour) == 8 - Abs(hour - 12)

\* A sun position: azimuth in degrees from south, westward positive, as
\* the library measures it (-180 < azimuth <= 180); of the altitude,
\* whether it passes the test of line 288 and its sine in halves.
SunAt(azimuth, above, sine) ==
  [azimuth |-> azimuth, altitude |-> [above |-> above, sine |-> sine]]

BelowHorizon == SunAt(0, FALSE, 0)

\* line 285: getSunPosition with a valid Date and plain numbers lat, lng
\* hands on what the library answers
SamplePosition(sun) ==
  LET got == GetSunPosition(DateValue("Date", Num(0)), "finite", "finite",
                            sun.altitude)
  IN [azimuth |-> sun.azimuth, altitude |-> got.value.altitude]

\* line 288: position.altitude > 0.1
AboveFilter(position) == position.altitude.above

\* line 290, in halves
AltitudeWeight(position) == position.altitude.sine

\* line 296, in 160ths
Weight(lat, month, hour, position) ==
  SeasonWeight(lat, month) * AltitudeWeight(position) * TimeWeight(hour)

\* lines 299-300
AzimuthDegrees(position) ==
  LET r == JSRem(position.azimuth, 360) IN IF r < 0 THEN r + 360 ELSE r

\* line 304
OrientationForThisSample(position) == JSRem(AzimuthDegrees(position) + 180, 360)

\* lines 307-308 keeping the latest sample only
AccumulateLatestOnly(acc, orientation, weight) ==
  [weightedSum |-> orientation * weight, totalWeight |-> weight]

\* lines 307-308
Accumulate(acc, orientation, weight) ==
  [weightedSum |-> acc.weightedSum + orientation * weight,
   totalWeight |-> acc.totalWeight + weight]

\* the sun when sample (month, hour) is taken: sky gives it for the
\* samples it names, the sun is below the filter at all others
Sun(sky, month, hour) ==
  IF <<month, hour>> \in DOMAIN sky THEN sky[<<month, hour>>] ELSE BelowHorizon

\* The loop of lines 279-310 from hours[i] on.  (The running totals are
\* never negative; testing it makes TLC compute them sample by sample
\* instead of nesting 66 pending sums.)
RECURSIVE HourLoop(_, _, _, _, _, _)
HourLoop(lat, month, hours, i, sky, acc) ==
  IF i > Len(hours) THEN acc
  ELSE LET position == SamplePosition(Sun(sky, month, hours[i]))
           next == IF AboveFilter(position)
                     THEN Accumulate(acc, OrientationForThisSample(position),
                                     Weight(lat, month, hours[i], position))
                     ELSE acc
       IN IF next.totalWeight >= 0
            THEN HourLoop(lat, month, hours, i + 1, sky, next)
            ELSE next

\* the loop of lines 263-311 from months[j] on
RECURSIVE DateLoop(_, _, _, _, _, _)
DateLoop(lat, months, hours, j, sky, acc) ==
  IF j > Len(months) THEN acc
  ELSE DateLoop(lat, months, hours, j + 1, sky,
                HourLoop(lat, months[j], hours, 1, sky, acc))

\* line 321, in ninetieths: 15 - (absLat / 90) * 10
MorningAdjustment(lat) == 15 * 90 - Abs(lat) * 10

\* line 332 without the + 360; x and the result in units of 1/unit
NormalizeWithoutShift(x, unit) == JSRem(x, 360 * unit)

\* line 332: (optimalOrientation + 360) % 360
Normalize(x, unit) == JSRem(x + 360 * unit, 360 * unit)

\* line 314: the weighted average, or the fallback
RawOrientation(lat, acc) ==
  IF acc.totalWeight > 0
    THEN [n |-> acc.weightedSum, d |-> acc.totalWeight]
    ELSE [n |-> BaseOrientation(lat), d |-> 1]

\* lines 323-329, in units of 1 / (90 * raw.d)
Adjusted(lat, raw) ==
  IF IsNorthernHemisphere(lat)
    THEN raw.n * 90 - MorningAdjustment(lat) * raw.d
    ELSE raw.n * 90 + MorningAdjustment(lat) * raw.d

\* Lines 259-334 with the samples taken in the order of `months` and
\* `hours`.  Beside the returned orientation, the record shows the locals
\* totalWeight (in 160ths) and optimalOrientation as line 314 leaves it.
OrientationOver(lat, months, hours, sky) ==
  LET acc == DateLoop(lat, months, hours, 1, sky,
                      [weightedSum |-> 0, totalWeight |-> 0])
      raw == RawOrientation(lat, acc)
  IN [orientation |-> Fraction(Normalize(Adjusted(lat, raw), 90 * raw.d),
                               90 * raw.d),
      raw |-> Fraction(raw.n, raw.d),
      totalWeight |-> acc.totalWeight]

\* lines 241-335
CalculateOptimalHouseOrientation(lat, lng, sky) ==
  Return(OrientationOver(lat, SampleMonths, Hours, sky))

\* latitudes and longitudes of the call, in degrees
LatChoices == {-90, -34, 0, 10, 90}
LngChoices == {151}

\* the samples at which the sun may pass the filter, as <<month, hour>>
SunlitSamples == { <<0, 7>>, <<0, 17>>, <<6, 12>> }

\* where the sun may be at such a sample
SkyChoices ==
  { BelowHorizon,
    SunAt(-135, TRUE, 1), SunAt(135, TRUE, 1), SunAt(180, TRUE, 2),
    SunAt(-10, TRUE, 1) }

Skies == [SunlitSamples -> SkyChoices]

InitOrientation ==
  /\ call = "calculateOptimalHouseOrientation"
  /\ zone = [kind |-> "fixed", day |-> 0]
  /\ args \in [lat : LatChoices, lng : LngChoices]
  /\ env = NoEnv
  /\ pc = "start"
  /\ outcome = NoOutcome

CallCalculateOptimalHouseOrientation ==
  /\ pc = "start"
  /\ call = "calculateOptimalHouseOrientation"
  /\ \E sky \in Skies :
       /\ env' = [sky |-> sky]
       /\ outcome' = CalculateOptimalHouseOrientation(args.lat, args.lng, sky)
  /\ pc' = "done"
  /\ UNCHANGED <<call, zone, args>>

NextOrientation == CallCalculateOptimalHouseOrientation

SpecOrientation == InitOrientation /\ [][NextOrientation]_vars

---------------------------------------------------------------------------
(* Properties of calculateOptimalHouseOrientation, under SpecOrientation   *)

OrientationDone == pc = "done" /\ call = "calculateOptimalHouseOrientation"

\* the samples that passed the altitude filter
Survivors == { s \in SunlitSamples : env.sky[s].altitude.above }

\* C12: calculateOptimalHouseOrientation returns a value in [0, 360) for
\* every lat in [-90, 90] (lat = 0 included) and every lng, whatever sun
\* positions the samples yield.
C12_OrientationInRange ==
  OrientationDone =>
    /\ ~outcome.thrown
    /\ outcome.value.orientation.n >= 0
    /\ outcome.value.orientation.n < 360 * outcome.value.orientation.d

\* C12's case: in the northern hemisphere with every surviving sample
\* giving the orientation 0; the eastward rotation goes below 0 and the
\* result wraps to 360 - 125/9
C12_Witness ==
  /\ OrientationDone
  /\ args.lat = 10
  /\ Survivors # {}
  /\ outcome.value.raw = [n |-> 0, d |-> 1]
  /\ outcome.value.orientation = [n |-> 3115, d |-> 9]

\* seq with its members i and j exchanged
Swap(seq, i, j) ==
  [k \in 1..Len(seq) |->
     IF k = i THEN seq[j] ELSE IF k = j THEN seq[i] ELSE seq[k]]

\* seq with any two of its members exchanged, and seq backwards
Exchanges(seq) ==
  { Swap(seq, i, j) : i, j \in 1..Len(seq) }
    \cup { [k \in 1..Len(seq) |-> seq[Len(seq) + 1 - k]] }

\* C13: the result of calculateOptimalHouseOrientation does not depend on
\* the order in which the six sample dates and the hours within a date
\* are processed: with any two dates exchanged or the dates taken
\* backwards, with any two hours exchanged or the hours taken backwards,
\* and with two dates and two hours exchanged at once, the orientation is
\* the one returned.
\* (Exchanges of two members generate every permutation.)
C13_SampleOrderIrrelevant ==
  OrientationDone =>
    /\ \A months \in Exchanges(SampleMonths) :
         OrientationOver(args.lat, months, Hours, env.sky).orientation
           = outcome.value.orientation
    /\ \A hours \in Exchanges(Hours) :
         OrientationOver(args.lat, SampleMonths, hours, env.sky).orientation
           = outcome.value.orientation
    /\ OrientationOver(args.lat, Swap(SampleMonths, 1, 4),
                       Swap(Hours, 1, 11), env.sky).orientation
         = outcome.value.orientation

\* C13's case: three samples of two dates survive with different
\* orientations and weights
C13_Witness ==
  /\ OrientationDone
  /\ Survivors = SunlitSamples
  /\ Cardinality({ env.sky[s] : s \in SunlitSamples }) = 3

\* C14: when no sample survives the altitude filter (total weight zero),
\* calculateOptimalHouseOrientation returns 180 - a in the northern
\* hemisphere and 0 + a in the southern, where a = 15 - (|lat|/90)*10, and
\* 5 <= a <= 15 for every |lat| <= 90.  (a is compared in ninetieths.)
C14_FallbackWhenNoSampleSurvives ==
  OrientationDone /\ Survivors = {} =>
    LET a90 == 15 * 90 - Abs(args.lat) * 10
        got == outcome.value.orientation
    IN /\ outcome.value.totalWeight = 0
       /\ 5 * 90 <= a90 /\ a90 <= 15 * 90
       /\ args.lat > 0 => got.n * 90 = (180 * 90 - a90) * got.d
       /\ args.lat < 0 => got.n * 90 = a90 * got.d

\* C14's case: the sun passes the filter at no sample, at lat = -34, where
\* a = 101/9
C14_Witness ==
  /\ OrientationDone
  /\ Survivors = {}
  /\ args.lat = -34
  /\ outcome.value.orientation = [n |-> 101, d |-> 9]

\* the orientation of one sample: (azimuth in degrees + 180) mod 360
Direction(s) == (env.sky[s].azimuth + 180) % 360

\* the sum of direction * weight and the sum of the weights over samples S
RECURSIVE WeightedTotals(_)
WeightedTotals(S) ==
  IF S = {} THEN [sum |-> 0, weight |-> 0]
  ELSE LET s == CHOOSE x \in S : TRUE
           w == Weight(args.lat, s[1], s[2], env.sky[s])
           rest == WeightedTotals(S \ {s})
       IN [sum |-> rest.sum + Direction(s) * w, weight |-> rest.weight + w]

\* the raw orientation is the weighted average of the samples' directions
RawIsWeightedAverage ==
  OrientationDone /\ Survivors # {} =>
    LET t == WeightedTotals(Survivors)
    IN outcome.value.raw = Fraction(t.sum, t.weight)

\* the clockwise angle from direction lo to direction d
Clockwise(lo, d) == (d - lo) % 360

\* the directions from which the surviving samples' directions all lie
\* less than half a turn clockwise: where the arc they span starts
ArcStarts ==
  { Direction(lo) : lo \in { x \in Survivors :
      \A s \in Survivors : Clockwise(Direction(x), Direction(s)) < 180 } }

\* the length of the arc starting at lo
ArcLength(lo) ==
  LET angles == { Clockwise(lo, Direction(s)) : s \in Survivors }
  IN CHOOSE a \in angles : \A b \in angles : b <= a

\* the raw orientation lies on the arc the samples' directions span
RawWithinArc ==
  \A lo \in ArcStarts :
    LET raw == outcome.value.raw
    IN (raw.n - lo * raw.d) % (360 * raw.d) <= ArcLength(lo) * raw.d

\* C15: the raw orientation (before the morning correction) is the
\* weighted average of (azimuthDegrees + 180) mod 360 over the surviving
\* samples, and it lies within the arc of directions those per-sample
\* orientations span, also when they straddle the 0/360 wrap.  (The code
\* averages the numbers, so directions 45 and 315 give 180.)
C15_RawOrientationWithinSampleArc ==
  OrientationDone /\ Survivors # {} =>
    /\ outcome.value.raw = Fraction(WeightedTotals(Survivors).sum,
                                    WeightedTotals(Survivors).weight)
    /\ RawWithinArc

\* The part of C15 the code satisfies beside RawIsWeightedAverage: the raw
\* orientation is on the arc when the arc does not reach across 0/360.
RawWithinArcWithoutWrap ==
  OrientationDone /\ Survivors # {} =>
    \A lo \in ArcStarts :
      lo + ArcLength(lo) < 360 =>
        LET raw == outcome.value.raw
        IN /\ lo * raw.d <= raw.n
           /\ raw.n <= (lo + ArcLength(lo)) * raw.d

---------------------------------------------------------------------------
(* The house layout component, src/unnamed/part_001: the orientation label *)
(* (lines 80-107) and the house shadow (lines 146-262, and the variant     *)
(* without rotation of lines 485-561).                                     *)
(*                                                                         *)
(* The orientation is counted in half degrees.  Angles whose sine and      *)
(* cosine are used are those with both a whole number of fifths; the       *)
(* sun's altitude is counted in twentieths of a right angle; lengths and   *)
(* coordinates are in fifteenths of a pixel.                               *)

\* lines 82-92 without the closing entry for 360
DirectionsWithoutWrap ==
  << [angle |-> 0, label |-> "N"], [angle |-> 45, label |-> "NE"],
     [angle |-> 90, label |-> "E"], [angle |-> 135, label |-> "SE"],
     [angle |-> 180, label |-> "S"], [angle |-> 225, label |-> "SW"],
     [angle |-> 270, label |-> "W"], [angle |-> 315, label |-> "NW"] >>

\* lines 82-92
Directions ==
  << [angle |-> 0, label |-> "N"], [angle |-> 45, label |-> "NE"],
     [angle |-> 90, label |-> "E"], [angle |-> 135, label |-> "SE"],
     [angle |-> 180, label |-> "S"], [angle |-> 225, label |-> "SW"],
     [angle |-> 270, label |-> "W"], [angle |-> 315, label |-> "NW"],
     [angle |-> 360, label |-> "N"] >>

\* The loop of lines 98-104 from directions[i] on; closestDiff and diff
\* are in half degrees.
RECURSIVE ClosestDirection(_, _, _, _, _)
ClosestDirection(orientation, directions, i, closestDirection, closestDiff) ==
  IF i > Len(directions) THEN closestDirection
  ELSE LET dir == directions[i]
           diff == Abs(orientation - 2 * dir.angle)               \* line 99
       IN IF diff < closestDiff                                   \* line 100
            THEN ClosestDirection(orientation, directions, i + 1, dir, diff)
            ELSE ClosestDirection(orientation, directions, i + 1,
                                  closestDirection, closestDiff)

\* lines 81-107: the rounded degrees and the label of the text returned
OrientationLabel(orientation) ==
  LET closest == ClosestDirection(orientation, Directions, 1, Directions[1],
                                  2 * 360)                        \* lines 95-96
  IN [degrees |-> RoundHalfUp(orientation, 2), label |-> closest.label]

\* orientations in [0, 360), in half degrees
OrientationChoices == 0..(2 * 360 - 1)

InitLabel ==
  /\ call = "orientationLabel"
  /\ zone = [kind |-> "fixed", day |-> 0]
  /\ args \in [orientation : OrientationChoices]
  /\ env = NoEnv
  /\ pc = "start"
  /\ outcome = NoOutcome

CallOrientationLabel ==
  /\ pc = "start"
  /\ call = "orientationLabel"
  /\ outcome' = Return(OrientationLabel(args.orientation))
  /\ pc' = "done"
  /\ UNCHANGED <<call, zone, args, env>>

NextLabel == CallOrientationLabel

SpecLabel == InitLabel /\ [][NextLabel]_vars

---------------------------------------------------------------------------
(* Properties of the orientation label, checked under SpecLabel            *)

LabelDone == pc = "done" /\ call = "orientationLabel"

\* the eight compass directions and their angles
Compass ==
  [N |-> 0, NE |-> 45, E |-> 90, SE |-> 135, S |-> 180, SW |-> 225,
   W |-> 270, NW |-> 315]

\* the angle between two directions, in half degrees
AngularDistance(a, b) ==
  LET d == Abs(a - b) IN IF d > 360 THEN 2 * 360 - d ELSE d

\* C16: for every orientation in [0, 360), the compass label is that of
\* the direction among N, NE, E, SE, S, SW, W, NW (at 0, 45, ..., 315
\* degrees) nearest to the angle; angles above 337.5 are labelled N.
C16_LabelIsNearestDirection ==
  LabelDone =>
    /\ outcome.value.label \in DOMAIN Compass
    /\ \A l \in DOMAIN Compass :
         AngularDistance(args.orientation, 2 * Compass[outcome.value.label])
           <= AngularDistance(args.orientation, 2 * Compass[l])
    /\ args.orientation > 2 * 337 + 1 => outcome.value.label = "N"

\* C16's case: 350 degrees, nearer to 360 than to 315, is labelled N
C16_Witness ==
  /\ LabelDone
  /\ args.orientation = 2 * 350
  /\ outcome.value.label = "N"

---------------------------------------------------------------------------
(* drawHouseShadow, src/unnamed/part_001 lines 146-262 and 485-561         *)

\* line 35
Padding == 10

\* An angle, by its sine and cosine in fifths.
ExactAngles ==
  { a \in [sin : -5..5, cos : -5..5] : a.sin * a.sin + a.cos * a.cos = 25 }

Pt(x, y) == [x |-> x, y |-> y]

\* line 33, line 36-37, lines 40-41, in pixels
Margin(size) == size \div 2
HouseWidth(size) == size - Padding * 2
HouseHeight(size) == size - Padding * 2
HouseX(size) == Margin(size) + Padding
HouseY(size) == Margin(size) + Padding

\* lines 44-56, in fifths
ShadowDirection(azimuth) == Pt(azimuth.sin, azimuth.cos)

Min(a, b) == IF a < b THEN a ELSE b
Max(a, b) == IF a > b THEN a ELSE b

\* the shadow length without the clamp of line 67
ShadowLengthUnclamped(size, altitude) == (size * 10 * 3 * (20 - altitude)) \div 20

\* Lines 59-68, in fifteenths of a pixel: baseLength is size / 1.5, the
\* altitude factor times 3 is clamped between 0.2 and 4 (in twentieths).
ShadowLength(size, altitude) ==
  LET factor3 == 3 * (20 - altitude)
      clamped == Min(4 * 20, Max(4, factor3))
  IN (size * 10 * clamped) \div 20

\* the test of line 148 letting a sun on the horizon cast a shadow
SunIsDownBelowOnly(altitude) == altitude < 0

\* the test of lines 148 and 487: altitude <= 0
SunIsDown(altitude) == altitude <= 0

\* lines 160-163 and 499-502
SunDir(shadowDir) == Pt(-shadowDir.x, -shadowDir.y)

\* lines 180-181 and 207-208: v turned by the angle, its length times 5
RotateVector(v, angle) ==
  Pt(v.x * angle.cos - v.y * angle.sin, v.x * angle.sin + v.y * angle.cos)

\* lines 206-209 turning the normal the other way round
RotateNormalBackwards(normal, angle) ==
  Pt(normal.x * angle.cos + normal.y * angle.sin,
     normal.y * angle.cos - normal.x * angle.sin)

\* lines 205-211: the normal of a side, turned with the house
RotateNormal(normal, angle) == RotateVector(normal, angle)

\* lines 174-188, from pixels to fifteenths of a pixel
RotatePoint(x, y, centerX, centerY, angle) ==
  LET turned == RotateVector(Pt(x - centerX, y - centerY), angle)
  IN Pt(3 * turned.x + 15 * centerX, 3 * turned.y + 15 * centerY)

\* lines 214-229 leaving the corner where it is
ShadowCornerUnmoved(corner, shadowDir, length) == corner

\* lines 214-229 and 512-527: a corner moved by shadowDir * length
ShadowCorner(corner, shadowDir, length) ==
  Pt(corner.x + (shadowDir.x * length) \div 5,
     corner.y + (shadowDir.y * length) \div 5)

\* lines 197-202: the sides, by the names of their corners, with their
\* normals before rotation
Sides ==
  << [start |-> "topLeft", end |-> "topRight", normal |-> Pt(0, -1)],
     [start |-> "topRight", end |-> "bottomRight", normal |-> Pt(1, 0)],
     [start |-> "bottomRight", end |-> "bottomLeft", normal |-> Pt(0, 1)],
     [start |-> "bottomLeft", end |-> "topLeft", normal |-> Pt(-1, 0)] >>

\* lines 246-259: the polygon of side `index` (from 0)
ShadowPolygon(index, c, sc) ==
  CASE index = 0 -> <<c.topLeft, c.topRight, sc.topRight, sc.topLeft>>
    [] index = 1 -> <<c.topRight, c.bottomRight, sc.bottomRight, sc.topRight>>
    [] index = 2 -> <<c.bottomRight, c.bottomLeft, sc.bottomLeft, sc.bottomRight>>
    [] OTHER -> <<c.bottomLeft, c.topLeft, sc.topLeft, sc.bottomLeft>>

\* a dot product that forgets the second component
DotProductFirstComponentOnly(normal, sunDir) == normal.x * sunDir.x

\* line 240, times 25
DotProduct(normal, sunDir) == normal.x * sunDir.x + normal.y * sunDir.y

\* the forEach of lines 238-262 from side `index` on
RECURSIVE CastShadows(_, _, _, _, _)
CastShadows(index, orientation, sunDir, c, sc) ==
  IF index >= Len(Sides) THEN <<>>
  ELSE LET normal == RotateNormal(Sides[index + 1].normal, orientation)
           rest == CastShadows(index + 1, orientation, sunDir, c, sc)
       IN IF DotProduct(normal, sunDir) < 0                      \* line 243
            THEN <<ShadowPolygon(index, c, sc)>> \o rest
            ELSE rest

\* the four shadow corners, lines 214-229 and 512-527
ShadowCorners(c, shadowDir, length) ==
  [k \in DOMAIN c |-> ShadowCorner(c[k], shadowDir, length)]

\* lines 170-171, in pixels
CenterX(size) == HouseX(size) + HouseWidth(size) \div 2
CenterY(size) == HouseY(size) + HouseHeight(size) \div 2

\* lines 191-194: the corners of the house turned about its centre
RotatedCorners(size, orientation) ==
  LET left == HouseX(size)
      right == HouseX(size) + HouseWidth(size)
      top == HouseY(size)
      bottom == HouseY(size) + HouseHeight(size)
      turn(x, y) == RotatePoint(x, y, CenterX(size), CenterY(size), orientation)
  IN [topLeft |-> turn(left, top), topRight |-> turn(right, top),
      bottomRight |-> turn(right, bottom), bottomLeft |-> turn(left, bottom)]

\* Lines 146-262: the polygons of `shadows`.  sun is props.sunPosition,
\* orientation the angle optimalOrientation gives.
DrawHouseShadow(size, sun, orientation) ==
  IF SunIsDown(sun.altitude) THEN <<>>                           \* line 148
  ELSE
    LET shadowDir == ShadowDirection(sun.azimuth)
        length == ShadowLength(size, sun.altitude)
        c == RotatedCorners(size, orientation)
    IN CastShadows(0, orientation, SunDir(shadowDir), c,
                   ShadowCorners(c, shadowDir, length))

\* Lines 485-561: the variant that does not rotate the house.
DrawHouseShadowSimplified(size, sun) ==
  IF SunIsDown(sun.altitude) THEN <<>>                           \* line 487
  ELSE
    LET shadowDir == ShadowDirection(sun.azimuth)
        length == ShadowLength(size, sun.altitude)
        sunDir == SunDir(shadowDir)
        left == 15 * HouseX(size)
        right == 15 * (HouseX(size) + HouseWidth(size))
        top == 15 * HouseY(size)
        bottom == 15 * (HouseY(size) + HouseHeight(size))
        c == [topLeft |-> Pt(left, top), topRight |-> Pt(right, top),
              bottomRight |-> Pt(right, bottom), bottomLeft |-> Pt(left, bottom)]
        sc == ShadowCorners(c, shadowDir, length)
    IN (IF sunDir.y > 0                                          \* line 536
          THEN << <<c.topLeft, c.topRight, sc.topRight, sc.topLeft>> >>
          ELSE <<>>)
       \o (IF sunDir.y < 0                                       \* line 543
          THEN << <<c.bottomLeft, c.bottomRight, sc.bottomRight, sc.bottomLeft>> >>
          ELSE <<>>)
       \o (IF sunDir.x < 0                                       \* line 550
          THEN << <<c.topRight, c.bottomRight, sc.bottomRight, sc.topRight>> >>
          ELSE <<>>)
       \o (IF sunDir.x > 0                                       \* line 557
          THEN << <<c.topLeft, c.bottomLeft, sc.bottomLeft, sc.topLeft>> >>
          ELSE <<>>)

\* props.size, in pixels
SizeChoices == {200, 300}

\* the sun's altitude, in twentieths of a right angle
AltitudeChoices == {-10, 0, 1, 10, 19, 20}

\* the house not turned
NoRotation == [sin |-> 0, cos |-> 5]

ShadowArgs ==
  [size : SizeChoices,
   sun : [azimuth : ExactAngles, altitude : AltitudeChoices],
   orientation : ExactAngles]

InitShadow ==
  /\ call \in {"drawHouseShadow", "drawHouseShadowSimplified"}
  /\ zone = [kind |-> "fixed", day |-> 0]
  /\ args \in ShadowArgs
  /\ call = "drawHouseShadowSimplified" => args.orientation = NoRotation
  /\ env = NoEnv
  /\ pc = "start"
  /\ outcome = NoOutcome

CallDrawHouseShadow ==
  /\ pc = "start"
  /\ call = "drawHouseShadow"
  /\ outcome' = Return(DrawHouseShadow(args.size, args.sun, args.orientation))
  /\ pc' = "done"
  /\ UNCHANGED <<call, zone, args, env>>

CallDrawHouseShadowSimplified ==
  /\ pc = "start"
  /\ call = "drawHouseShadowSimplified"
  /\ outcome' = Return(DrawHouseShadowSimplified(args.size, args.sun))
  /\ pc' = "done"
  /\ UNCHANGED <<call, zone, args, env>>

NextShadow == CallDrawHouseShadow \/ CallDrawHouseShadowSimplified

SpecShadow == InitShadow /\ [][NextShadow]_vars

---------------------------------------------------------------------------
(* Properties of the house shadow, checked under SpecShadow                *)

ShadowDone ==
  pc = "done" /\ call \in {"drawHouseShadow", "drawHouseShadowSimplified"}

\* the polygons drawn
Shadows == outcome.value

\* C17: the house shadow computation produces no polygon whenever
\* altitude <= 0, and between 1 and 3 polygons (never 0, never 4) whenever
\* altitude > 0 and the house is axis-aligned (rotation 0), for every sun
\* azimuth; in both variants.
C17_NoShadowBelowHorizonElseOneToThree ==
  ShadowDone =>
    /\ args.sun.altitude <= 0 => Shadows = <<>>
    /\ args.sun.altitude > 0 /\ args.orientation = NoRotation =>
         Len(Shadows) >= 1 /\ Len(Shadows) <= 3

\* C17's case: the rotating variant, house not turned, the sun up and off
\* the axes, which gives two polygons
C17_Witness ==
  /\ ShadowDone /\ call = "drawHouseShadow"
  /\ args.orientation = NoRotation
  /\ args.sun.altitude > 0
  /\ args.sun.azimuth = [sin |-> 3, cos |-> -4]
  /\ Len(Shadows) = 2

\* the house as the rotating variant draws it, and its centre, in
\* fifteenths of a pixel
Corners == RotatedCorners(args.size, args.orientation)
Centre == Pt(15 * CenterX(args.size), 15 * CenterY(args.size))

\* the four edges, each by its two corners
Edges ==
  << <<Corners.topLeft, Corners.topRight>>,
     <<Corners.topRight, Corners.bottomRight>>,
     <<Corners.bottomRight, Corners.bottomLeft>>,
     <<Corners.bottomLeft, Corners.topLeft>> >>

\* twice the vector from the centre to the middle of an edge: the edge's
\* outward normal as the turned house has it
Outward(edge) ==
  Pt(edge[1].x + edge[2].x - 2 * Centre.x, edge[1].y + edge[2].y - 2 * Centre.y)

\* the direction toward the sun: the negative of the shadow direction
TowardSun == Pt(-args.sun.azimuth.sin, -args.sun.azimuth.cos)

FacesAway(edge) ==
  Outward(edge).x * TowardSun.x + Outward(edge).y * TowardSun.y < 0

\* the edges that cast a shadow: the first two vertices of each polygon
CastingEdges == { <<Shadows[k][1], Shadows[k][2]>> : k \in 1..Len(Shadows) }

\* C18: for every sun azimuth with altitude > 0 and every house rotation,
\* the edges that cast a shadow are exactly the edges whose rotated
\* outward normal has a negative dot product with the direction toward the
\* sun; two opposite edges never both cast a shadow and at least one edge
\* always does.
C18_CastingEdgesFaceAwayFromSun ==
  ShadowDone /\ call = "drawHouseShadow" /\ args.sun.altitude > 0 =>
    /\ \A i \in 1..4 : Edges[i] \in CastingEdges <=> FacesAway(Edges[i])
    /\ CastingEdges \subseteq { Edges[i] : i \in 1..4 }
    /\ Cardinality(CastingEdges) = Len(Shadows)
    /\ \A i \in 1..2 : ~(Edges[i] \in CastingEdges /\ Edges[i + 2] \in CastingEdges)
    /\ CastingEdges # {}

\* C18's case: the house turned by an angle off the axes, the sun up and
\* square to two of its sides, so that exactly one edge casts a shadow
C18_Witness ==
  /\ ShadowDone /\ call = "drawHouseShadow"
  /\ args.sun.altitude > 0
  /\ args.orientation = [sin |-> 3, cos |-> 4]
  /\ args.sun.azimuth = [sin |-> 3, cos |-> -4]
  /\ Cardinality(CastingEdges) = 1

\* the shadow's displacement, in fifteenths of a pixel: shadowDirection
\* times shadowLength
Displacement ==
  LET length == ShadowLength(args.size, args.sun.altitude)
  IN Pt((args.sun.azimuth.sin * length) \div 5,
        (args.sun.azimuth.cos * length) \div 5)

Moved(p) == Pt(p.x + Displacement.x, p.y + Displacement.y)

\* the corners of the house as the variant called draws it
DrawnCorners ==
  IF call = "drawHouseShadow" THEN Corners
  ELSE RotatedCorners(args.size, NoRotation)

\* the house's sides, in either direction
DrawnSides ==
  LET c == DrawnCorners
      ring == <<c.topLeft, c.topRight, c.bottomRight, c.bottomLeft, c.topLeft>>
  IN { <<ring[i], ring[i + 1]>> : i \in 1..4 }
       \cup { <<ring[i + 1], ring[i]>> : i \in 1..4 }

\* C19: every shadow polygon has exactly four vertices: the two (rotated)
\* corners of its casting edge, then those two corners translated by
\* shadowDirection * shadowLength, in the order edge start, edge end,
\* translated end, translated start; in both variants.
C19_PolygonIsEdgeAndItsTranslation ==
  ShadowDone =>
    \A k \in 1..Len(Shadows) :
      LET polygon == Shadows[k]
      IN /\ Len(polygon) = 4
         /\ <<polygon[1], polygon[2]>> \in DrawnSides
         /\ polygon[3] = Moved(polygon[2])
         /\ polygon[4] = Moved(polygon[1])

\* C19's case: the variant without rotation drew two polygons, the sun
\* being off the axes, with a displacement that is not zero
C19_Witness ==
  /\ ShadowDone /\ call = "drawHouseShadowSimplified"
  /\ Len(Shadows) = 2
  /\ Displacement.x # 0 /\ Displacement.y # 0
  /\ Shadows[1][3] = Moved(Shadows[1][2])

---------------------------------------------------------------------------
(* formatTime, src/src/lib/sunCalc.js lines 165-195.  Here an instant is   *)
(* counted in whole minutes from 00:00 UTC of a day; the host's standard   *)
(* time is UTC plus hostOffset minutes.  A text is the sequence of its     *)
(* characters.                                                             *)

DigitChars == <<"0", "1", "2", "3", "4", "5", "6", "7", "8", "9">>

\* n.toString() for 0 <= n < 100
NumberToString(n) ==
  IF n < 10 THEN <<DigitChars[n + 1]>>
  ELSE <<DigitChars[n \div 10 + 1], DigitChars[(n % 10) + 1]>>

\* text.padStart(2, '0')
PadStart2(text) == IF Len(text) < 2 THEN <<"0">> \o text ELSE text

NotAvailable == <<"N", "/", "A">>
NaNText == <<"N", "a", "N">>

\* a longitude argument left out
Undefined == [k |-> "undefined", v |-> 0]

\* ToIntegerOrInfinity on the fraction n/d: the fraction cut toward zero
Truncate(n, d) == IF n >= 0 THEN n \div d ELSE -((-n) \div d)

\* Date.UTC as it would be if it kept the fraction of the hours
LocalDateWithFraction(t, lng) == t + 4 * lng

\* Lines 171-184: the instant of Date.UTC(utcYear, utcMonth, utcDay,
\* utcHours + lng / 15, utcMinutes), which cuts the hours to an integer.
LocalDate(t, lng) ==
  LET utcDay == t \div MinutesPerDay                              \* lines 171-173
      utcHours == (t % MinutesPerDay) \div MinutesPerHour         \* line 174
      utcMinutes == t % MinutesPerHour                            \* line 175
      localHours15 == 15 * utcHours + lng        \* lines 178-181, in 15ths
  IN utcDay * MinutesPerDay
       + Truncate(localHours15, 15) * MinutesPerHour + utcMinutes \* line 184

\* lines 187-190
ClockText(t) ==
  PadStart2(NumberToString((t % MinutesPerDay) \div MinutesPerHour))
    \o <<":">> \o PadStart2(NumberToString(t % MinutesPerHour))

\* line 194: toLocaleTimeString([], {hour: '2-digit', minute: '2-digit'})
\* on a host whose locale counts 24 hours, or 12 with AM and PM
LocaleTimeText(z, hostOffset, hour12, t) ==
  LET clock == ClockMinutes(z, t + hostOffset)
      h == clock \div MinutesPerHour
      shown == IF ~hour12 THEN h ELSE IF h % 12 = 0 THEN 12 ELSE h % 12
  IN PadStart2(NumberToString(shown)) \o <<":">>
       \o PadStart2(NumberToString(clock % MinutesPerHour))
       \o (IF ~hour12 THEN <<>>
           ELSE IF h < 12 THEN <<" ", "A", "M">> ELSE <<" ", "P", "M">>)

\* lines 165-195
FormatTime(date, lng, z, hostOffset, hour12) ==
  IF date.kind \in {"null", "undefined"} THEN Return(NotAvailable)  \* !date
  ELSE IF date.kind # "Date" THEN Thrown       \* date.getTime is no function
  ELSE IF IsNaNNum(date.t) THEN Return(NotAvailable)               \* line 166
  ELSE IF lng.k = "undefined"                                      \* line 169
    THEN Return(LocaleTimeText(z, hostOffset, hour12, date.t.v))
  ELSE IF IsNaNNum(lng)
    THEN Return(NaNText \o <<":">> \o NaNText)
  ELSE Return(ClockText(LocalDate(date.t.v, lng.v)))

\* instants: minutes of one UTC day
FormatInstants == {0, 1, 59, 60, 719, 720, 1380, 1439}

FormatDates ==
  { DateValue("Date", Num(t)) : t \in FormatInstants } \cup
  { DateValue("Date", NaN), DateValue("null", NaN),
    DateValue("undefined", NaN), DateValue("string", NaN) }

\* longitudes in whole degrees, a longitude that is NaN, and none
FormatLongitudes ==
  { Num(l) : l \in {-180, -20, -15, -1, 0, 1, 14, 15, 20, 30, 179, 180} }
    \cup { NaN, Undefined }

\* the host's standard time minus UTC, in minutes
HostOffsets == {-5 * MinutesPerHour, 0, 9 * MinutesPerHour + 30}

InitFormat ==
  /\ call = "formatTime"
  /\ zone \in Zones
  /\ args \in [date : FormatDates, lng : FormatLongitudes]
  /\ env \in [hostOffset : HostOffsets, hour12 : BOOLEAN]
  /\ pc = "start"
  /\ outcome = NoOutcome

CallFormatTime ==
  /\ pc = "start"
  /\ call = "formatTime"
  /\ outcome' = FormatTime(args.date, args.lng, zone, env.hostOffset, env.hour12)
  /\ pc' = "done"
  /\ UNCHANGED <<call, zone, args, env>>

NextFormat == CallFormatTime

SpecFormat == InitFormat /\ [][NextFormat]_vars

---------------------------------------------------------------------------
(* Properties of formatTime, checked under SpecFormat                      *)

FormatDone == pc = "done" /\ call = "formatTime"

\* the call has a valid instant and a longitude that is a number
ValidInstantAndLongitude ==
  /\ args.date.kind = "Date" /\ ~IsNaNNum(args.date.t)
  /\ args.lng.k = "num"

\* HH:MM of a clock reading given in minutes
HoursAndMinutes(minutes) ==
  LET h == (minutes % MinutesPerDay) \div MinutesPerHour
      m == minutes % MinutesPerHour
  IN <<DigitChars[h \div 10 + 1], DigitChars[(h % 10) + 1], ":",
       DigitChars[m \div 10 + 1], DigitChars[(m % 10) + 1]>>

\* C20: for every valid instant and every longitude, formatTime(instant,
\* longitude) is the 24-hour HH:MM reading of the instant's UTC time plus
\* longitude/15 hours (4 minutes per degree), wrapped across day
\* boundaries, also for longitudes that are no multiples of 15 and for
\* negative ones.  (The code drops the fraction of longitude/15.)
C20_FormatTimeAddsLongitudeOffset ==
  FormatDone /\ ValidInstantAndLongitude =>
    /\ ~outcome.thrown
    /\ outcome.value = HoursAndMinutes(args.date.t.v + 4 * args.lng.v)

\* The part of C20 the code satisfies: the reading is right when the
\* longitude is a multiple of 15, negative ones included.
FormatTimeWholeHourOffsets ==
  FormatDone /\ ValidInstantAndLongitude /\ args.lng.v % 15 = 0 =>
    /\ ~outcome.thrown
    /\ outcome.value = HoursAndMinutes(args.date.t.v + 4 * args.lng.v)

\* the instant is null, undefined, an Invalid Date or no Date at all
InvalidInstant ==
  \/ args.date.kind # "Date"
  \/ IsNaNNum(args.date.t)

\* C21: formatTime returns "N/A" for every invalid or unparseable instant
\* (null, undefined, an Invalid Date, or a value that is not a Date), with
\* or without a longitude, and does not throw.  (A string, or any other
\* truthy value without getTime, makes line 166 throw a TypeError.)
C21_InvalidInstantGivesNotAvailable ==
  FormatDone /\ InvalidInstant =>
    /\ ~outcome.thrown
    /\ outcome.value = NotAvailable

\* a state C21 is about that the code gets right: an Invalid Date with a
\* longitude
C21_Witness ==
  /\ FormatDone
  /\ args.date.kind = "Date" /\ IsNaNNum(args.date.t)
  /\ args.lng.k = "num"
  /\ outcome = Return(NotAvailable)

\* The part of C21 the code satisfies: null, undefined and an Invalid Date
\* give "N/A", with or without a longitude.
FormatTimeNullOrInvalidDate ==
  FormatDone /\ InvalidInstant /\ args.date.kind \in {"Date", "null", "undefined"} =>
    /\ ~outcome.thrown
    /\ outcome.value = NotAvailable

\* C28: for every valid instant and every longitude, the minutes field of
\* formatTime's output equals the instant's UTC minutes; a longitude
\* offset changes only the hour field, by a whole number of hours.
C28_LongitudeChangesWholeHoursOnly ==
  FormatDone /\ ValidInstantAndLongitude =>
    /\ ~outcome.thrown
    /\ \E k \in -12..12 :
         outcome.value = HoursAndMinutes(args.date.t.v + k * MinutesPerHour)

\* a longitude that is no multiple of 15 moves 12:00 UTC to 13:00
C28_Witness ==
  /\ FormatDone
  /\ args.date = DateValue("Date", Num(720))
  /\ args.lng = Num(20)
  /\ outcome = Return(<<"1", "3", ":", "0", "0">>)

---------------------------------------------------------------------------
(* Further properties of the house shadow, checked under SpecShadow        *)

\* the square of the distance a polygon's edge was moved, in fifteenths of
\* a pixel: the shadow length the call used
DrawnLengthSquared(polygon) ==
  LET dx == polygon[3].x - polygon[2].x
      dy == polygon[3].y - polygon[2].y
  IN dx * dx + dy * dy

\* props.size / 1.5, in fifteenths of a pixel
BaseLength(size) == size * 10

\* 100 * min(4, max(0.2, 3 * (1 - altitude / (pi/2)))), the altitude in
\* twentieths of a right angle
LengthFactor(altitude) ==
  LET factor == 15 * (20 - altitude)
      atLeast == IF factor < 20 THEN 20 ELSE factor
  IN IF atLeast > 400 THEN 400 ELSE atLeast

\* C25: for altitude in (0, pi/2] the shadow length is
\* baseLength * min(4, max(0.2, 3 * (1 - altitude / (pi/2)))) with
\* baseLength = size / 1.5; it does not increase with the altitude, is
\* never below 0.2 * baseLength and never above 4 * baseLength.
C25_ShadowLengthClampedAndMonotone ==
  ShadowDone /\ args.sun.altitude > 0 =>
    LET base == BaseLength(args.size)
        expected == (base * LengthFactor(args.sun.altitude)) \div 100
    IN /\ \A k \in 1..Len(Shadows) :
            /\ DrawnLengthSquared(Shadows[k]) = expected * expected
            /\ 25 * DrawnLengthSquared(Shadows[k]) >= base * base
            /\ DrawnLengthSquared(Shadows[k]) <= 16 * base * base
       /\ ShadowLength(args.size, args.sun.altitude) = expected
       /\ \A higher \in AltitudeChoices :
            higher >= args.sun.altitude =>
              ShadowLength(args.size, higher) <= expected

\* C25's case: the sun one twentieth of a right angle from the zenith,
\* where the lower clamp binds: the shadow drawn is 0.2 * baseLength long
C25_Witness ==
  /\ ShadowDone
  /\ args.sun.altitude = 19
  /\ Len(Shadows) >= 1
  /\ 25 * DrawnLengthSquared(Shadows[1]) = BaseLength(args.size) * BaseLength(args.size)

\* the edges a list of polygons casts from, each as the set of its two
\* corners
EdgeSet(polygons) ==
  { {polygons[k][1], polygons[k][2]} : k \in 1..Len(polygons) }

\* what the other variant draws for the same size and sun, the house not
\* turned
OtherVariant ==
  IF call = "drawHouseShadow"
    THEN DrawHouseShadowSimplified(args.size, args.sun)
    ELSE DrawHouseShadow(args.size, args.sun, NoRotation)

\* C26: with rotation 0, the face selection by rotated normals and the
\* simplified selection by the sign of the sun direction's components
\* choose the same set of shadow-casting edges for every azimuth; they can
\* differ only when the rotation is not zero.
C26_VariantsAgreeWithoutRotation ==
  ShadowDone /\ args.orientation = NoRotation =>
    /\ EdgeSet(Shadows) = EdgeSet(OtherVariant)
    /\ Len(Shadows) = Len(OtherVariant)

\* C26's case: the rotating variant, the house not turned, the sun up in
\* the north-west: both variants cast from the same two edges
C26_Witness ==
  /\ ShadowDone /\ call = "drawHouseShadow"
  /\ args.orientation = NoRotation
  /\ args.sun.altitude > 0
  /\ args.sun.azimuth = [sin |-> -4, cos |-> 3]
  /\ Cardinality(EdgeSet(Shadows)) = 2
  /\ EdgeSet(Shadows) = EdgeSet(DrawHouseShadowSimplified(args.size, args.sun))

\* With the house turned the two selections do differ.
VariantsDifferWithRotation ==
  /\ ShadowDone /\ call = "drawHouseShadow"
  /\ args.orientation # NoRotation
  /\ args.sun.altitude > 0
  /\ EdgeSet(Shadows) # EdgeSet(DrawHouseShadowSimplified(args.size, args.sun))

---------------------------------------------------------------------------
(* Further properties of calculateOptimalHouseOrientation, checked under   *)
(* SpecOrientation                                                         *)

\* C27: in calculateOptimalHouseOrientation every surviving sample has a
\* strictly positive weight; for the hours 7..17 the time weight
\* 1 - |hour - 12| / 8 is at least 0.375; the total weight is zero exactly
\* when no sample passes the filter altitude > 0.1.
C27_WeightsPositive ==
  OrientationDone =>
    /\ \A s \in Survivors :
         Weight(args.lat, s[1], s[2], SamplePosition(env.sky[s])) > 0
    /\ \A i \in 1..Len(Hours) : 1000 * TimeWeight(Hours[i]) >= 375 * 8
    /\ outcome.value.totalWeight = 0 <=> Survivors = {}
    /\ outcome.value.totalWeight >= 0

\* C27's case: the sample of 7 o'clock, whose time weight is 0.375,
\* passes the filter, and the total weight is positive
C27_Witness ==
  /\ OrientationDone
  /\ <<0, 7>> \in Survivors
  /\ TimeWeight(7) = 3
  /\ outcome.value.totalWeight > 0

---------------------------------------------------------------------------
(* The date slider: dayOfYearToDate and dateToDayOfYear,                   *)
(* src/src/lib/sunCalc.js lines 216-232, as DateTimeSlider.vue uses them   *)
(* (lines 26-32, 166-168, 199-205).  Both work in the host's local time.   *)
(* Here an instant is counted in whole minutes from the host's standard    *)
(* midnight that begins December 31 of the year before `year` (day 0 of    *)
(* the year), and a Date is [year, t].                                     *)

\* A host zone over a year: without daylight saving, or with an hour of
\* daylight saving from 02:00 standard time of day `from` to 02:00 standard
\* time of day `to`: within the year in the north, across the new year in
\* the south.
YearZones ==
  { [kind |-> "fixed", from |-> 0, to |-> 0],
    [kind |-> "north", from |-> 70, to |-> 305],
    [kind |-> "south", from |-> 275, to |-> 95] }

YearDstShift(z, t) ==
  LET start == z.from * MinutesPerDay + 2 * MinutesPerHour
      end == z.to * MinutesPerDay + 2 * MinutesPerHour
  IN CASE z.kind = "north" -> IF t >= start /\ t < end THEN MinutesPerHour ELSE 0
       [] z.kind = "south" -> IF t < end \/ t >= start THEN MinutesPerHour ELSE 0
       [] OTHER -> 0

\* DateTimeSlider.vue line 31, and the calendar of Date
IsLeapYear(year) == year % 4 = 0 /\ (year % 100 # 0 \/ year % 400 = 0)

\* DateTimeSlider.vue lines 29-32
MaxDay(year) == IF IsLeapYear(year) THEN 366 ELSE 365

\* new Date(year, 0, n): the instant at which the host's clock reads 00:00
\* of day n of the year (n = 0 is December 31 of the year before)
LocalMidnight(z, n) ==
  LET w == n * MinutesPerDay
  IN IF YearDstShift(z, w - MinutesPerHour) = MinutesPerHour
       THEN w - MinutesPerHour
       ELSE w

\* date.getFullYear()
GetFullYear(z, date) ==
  LET wall == date.t + YearDstShift(z, date.t)
      day == wall \div MinutesPerDay
  IN IF day > MaxDay(date.year) THEN date.year + 1
     ELSE IF day < 1 THEN date.year - 1
     ELSE date.year

\* Lines 216-220: new Date(year, 0) is January 1 at 00:00 host time, and
\* setDate(dayOfYear) moves it to 00:00 host time of that day of January,
\* counted on into the later months.
DayOfYearToDate(z, dayOfYear, year) ==
  [year |-> year, t |-> LocalMidnight(z, dayOfYear)]

\* Math.floor(n / d), d > 0
Floor(n, d) == n \div d

\* Lines 227-232: the whole days between 00:00 host time of December 31
\* of the year before the date's year, and the date.
DateToDayOfYear(z, date) ==
  LET fullYear == GetFullYear(z, date)
      start == IF fullYear = date.year THEN LocalMidnight(z, 0)   \* line 228
               ELSE IF fullYear > date.year
                 THEN LocalMidnight(z, MaxDay(date.year))
               ELSE LocalMidnight(z, -MaxDay(fullYear))
      diff == date.t - start                                      \* line 229
  IN Floor(diff, MinutesPerDay)                                   \* line 231

\* the years of props.currentDate
YearChoices == {2000, 2023, 2024, 2100}

\* The slider component between a change of the date slider and the
\* watcher of props.currentDate: env holds the slider's dayOfYear and the
\* parent's date.
InitDaySlider ==
  /\ call = "handleDateSliderChange"
  /\ zone \in YearZones
  /\ \E year \in YearChoices :
       \E first \in {1, MaxDay(year)} :
         env = [dayOfYear |-> DateToDayOfYear(zone, DayOfYearToDate(zone, first, year)),
                currentDate |-> DayOfYearToDate(zone, first, year)]
  /\ args \in [day : 1..366]
  /\ args.day <= MaxDay(env.currentDate.year)
  /\ pc = "start"
  /\ outcome = NoOutcome

\* DateTimeSlider.vue lines 200-205, with App.vue lines 53-55 which the
\* emit calls
HandleDateSliderChange ==
  /\ pc = "start"
  /\ call = "handleDateSliderChange"
  /\ LET day == args.day                                          \* line 201
         newDate == DayOfYearToDate(zone, day,
                                    GetFullYear(zone, env.currentDate))
     IN env' = [dayOfYear |-> day, currentDate |-> newDate]
  /\ pc' = "emitted"
  /\ UNCHANGED <<call, zone, args, outcome>>

\* DateTimeSlider.vue lines 166-168: the watcher of props.currentDate
WatchCurrentDate ==
  /\ pc = "emitted"
  /\ call = "handleDateSliderChange"
  /\ env' = [env EXCEPT !.dayOfYear = DateToDayOfYear(zone, env.currentDate)]
  /\ pc' = "done"
  /\ UNCHANGED <<call, zone, args, outcome>>

NextDaySlider == HandleDateSliderChange \/ WatchCurrentDate

SpecDaySlider == InitDaySlider /\ [][NextDaySlider]_vars

---------------------------------------------------------------------------
(* Properties of the date slider, checked under SpecDaySlider              *)

DaySliderDone == pc = "done" /\ call = "handleDateSliderChange"

\* C22: the round trip dateToDayOfYear(dayOfYearToDate(d, year)) = d holds
\* for every year and every d in 1..365 (366 in a leap year), whatever the
\* host's time zone, zones with daylight saving included.  (With daylight
\* saving in force on day d but not on December 31, the date is an hour
\* short of d whole days after December 31, and the floor gives d - 1.)
C22_DayOfYearRoundTrip ==
  DaySliderDone =>
    /\ env.dayOfYear = args.day
    /\ DateToDayOfYear(zone, DayOfYearToDate(zone, args.day, env.currentDate.year))
         = args.day

\* a state C22 is about that the code gets right: the last day of a leap
\* year on a host with daylight saving
C22_Witness ==
  /\ DaySliderDone
  /\ zone.kind = "north"
  /\ args.day = 366
  /\ env.dayOfYear = 366

\* The part of C22 the code satisfies: the round trip holds on a host
\* without daylight saving, on a host whose daylight saving is in force on
\* December 31, and on the days without daylight saving of any host.
RoundTripOutsideDaylightSaving ==
  DaySliderDone /\ (zone.kind # "north"
                    \/ YearDstShift(zone, env.currentDate.t) = 0) =>
    env.dayOfYear = args.day

---------------------------------------------------------------------------
(* The time slider of DateTimeSlider.vue (lines 36-42, 171-183, 208-233).  *)
(* An instant is counted in whole minutes from 00:00 UTC of a day; the     *)
(* slider counts minutes of the location's day.                            *)

\* lines 36-39: Math.round(lng / 15), lng in whole degrees
LocationTimezoneOffset(lng) == RoundHalfUp(lng, 15)

GetUTCHours(t) == (t % MinutesPerDay) \div MinutesPerHour
GetUTCMinutes(t) == t % MinutesPerHour

\* setUTCHours(h, m, 0, 0): the UTC day kept
SetUTCHours(t, h, m) ==
  (t \div MinutesPerDay) * MinutesPerDay + h * MinutesPerHour + m

\* line 178 without the correction of line 179
LocationHoursWithoutWrap(utcHours, offset) == JSRem(utcHours + offset, 24)

\* lines 178-179
LocationHours(utcHours, offset) ==
  LET locationHours == JSRem(utcHours + offset, 24)
  IN IF locationHours < 0 THEN locationHours + 24 ELSE locationHours

\* lines 171-183: the watcher's value for totalMinutes
WatchedMinutes(currentTime, lng) ==
  LocationHours(GetUTCHours(currentTime), LocationTimezoneOffset(lng))
    * MinutesPerHour + GetUTCMinutes(currentTime)

\* lines 214-230: the time handleTimeSliderChange emits
NewTime(currentTime, minutes, lng) ==
  LET utcDate == SetUTCHours(currentTime, 0, 0)                   \* lines 214-215
      locationHours == minutes \div MinutesPerHour                \* line 218
      locationMinutes == minutes % MinutesPerHour                 \* line 219
      utcHours == locationHours - LocationTimezoneOffset(lng)     \* line 222
      wrapped == IF utcHours < 0 THEN utcHours + 24 ELSE utcHours \* line 223
      utcHours24 == IF wrapped >= 24 THEN wrapped - 24 ELSE wrapped \* line 224
  IN SetUTCHours(utcDate, utcHours24, locationMinutes)            \* line 227

\* longitudes in whole degrees: every multiple of 15 and some between
SliderLongitudes ==
  { 15 * k : k \in -12..12 } \cup {-173, -172, -8, -7, 7, 8, 172, 173}

\* props.currentTime before the change
SliderTimes == {754, MinutesPerDay + 30}

\* the slider's positions: max="1439"
SliderMinutes == 0..1439

InitTimeSlider ==
  /\ call = "handleTimeSliderChange"
  /\ zone = [kind |-> "fixed", day |-> 0]
  /\ args \in [minutes : SliderMinutes, lng : SliderLongitudes]
  /\ \E time \in SliderTimes :
       env = [totalMinutes |-> WatchedMinutes(time, args.lng),    \* immediate
              currentTime |-> time]
  /\ pc = "start"
  /\ outcome = NoOutcome

\* lines 208-233, with App.vue lines 58-60 which the emit calls
HandleTimeSliderChange ==
  /\ pc = "start"
  /\ call = "handleTimeSliderChange"
  /\ env' = [totalMinutes |-> args.minutes,                       \* line 210
             currentTime |-> NewTime(env.currentTime, args.minutes, args.lng)]
  /\ pc' = "emitted"
  /\ UNCHANGED <<call, zone, args, outcome>>

\* lines 171-183: the watcher of props.currentTime
WatchCurrentTime ==
  /\ pc = "emitted"
  /\ call = "handleTimeSliderChange"
  /\ env' = [env EXCEPT !.totalMinutes = WatchedMinutes(env.currentTime, args.lng)]
  /\ pc' = "done"
  /\ UNCHANGED <<call, zone, args, outcome>>

NextTimeSlider == HandleTimeSliderChange \/ WatchCurrentTime

SpecTimeSlider == InitTimeSlider /\ [][NextTimeSlider]_vars

---------------------------------------------------------------------------
(* Properties of the time slider, checked under SpecTimeSlider             *)

TimeSliderDone == pc = "done" /\ call = "handleTimeSliderChange"

\* C29: the time slider's round trip is the identity: for every m in
\* 0..1439 and every offset round(lng / 15) in -12..12, turning m into a
\* UTC time in handleTimeSliderChange and back in the watcher of
\* currentTime yields m.
C29_TimeSliderRoundTrip ==
  TimeSliderDone =>
    /\ LocationTimezoneOffset(args.lng) \in -12..12
    /\ env.totalMinutes = args.minutes
    /\ WatchedMinutes(NewTime(env.currentTime, args.minutes, args.lng), args.lng)
         = args.minutes

\* C29's case: 23:59 at 75 degrees west is 04:59 UTC; on the way back
\* 4 - 5 is negative and has to be wrapped
C29_Witness ==
  /\ TimeSliderDone
  /\ args.minutes = 1439
  /\ args.lng = -75
  /\ GetUTCHours(env.currentTime) = 4
  /\ env.totalMinutes = 1439

---------------------------------------------------------------------------
(* The location input: handleSearch, src/unnamed/part_002 lines 14-56, and *)
(* its variant that reports errors in a toast, lines 185-238, with the     *)
(* parent's handlers of App.vue (lines 46-50, 69-72).  handleSearch is     *)
(* asynchronous: a call runs up to its return or its await of              *)
(* geocodeAddress, and goes on when the geocoding settles.  The Enter key  *)
(* is not disabled during a search, so calls can overlap.  Here `call` is  *)
(* the variant, args the input each call read, pc each call's position,    *)
(* outcome each call's geocoding reply, and env the component's and the    *)
(* parent's state with the list of events emitted.                         *)

\* the number of calls of handleSearch followed
MaxCalls == 2

Calls == 1..MaxCalls

\* The text of the input: empty, a pair "lat, lng" that line 26 matches
\* (with the numbers line 27 parses), or another text.
InputText(shape, lat, lng) == [shape |-> shape, lat |-> lat, lng |-> lng]

Inputs ==
  { InputText("empty", 0, 0), InputText("other", 0, 0),
    InputText("pair", 43, -2), InputText("pair", 90, -180),
    InputText("pair", -91, 0), InputText("pair", 10, 181) }

NoInput == InputText("none", 0, 0)

\* what geocodeAddress settles with (src/src/lib/mapUtils.js lines
\* 286-318): coordinates, or an error with its message
Reply(kind, lat, lng, message) ==
  [kind |-> kind, lat |-> lat, lng |-> lng, message |-> message]

Resolutions == { Reply("resolved", 48, 2, "") }

Rejections ==
  { Reply("rejected", 0, 0, "Address not found"),
    Reply("rejected", 0, 0, "Geocoding error: 500"),
    Reply("rejected", 0, 0, "") }

NoReply == Reply("none", 0, 0, "")

Coords(lat, lng, forceUpdate) ==
  [lat |-> lat, lng |-> lng, forceUpdate |-> forceUpdate]

\* App.vue line 8, in whole degrees
DefaultCoordinates == Coords(43, -2, FALSE)

\* emit('loading', isLoading), and App.vue lines 70-72
EmitLoading(e, c, isLoading) ==
  [e EXCEPT !.events = Append(@, [call |-> c, name |-> "loading",
                                  loading |-> isLoading,
                                  coords |-> DefaultCoordinates]),
            !.loading = isLoading]

\* emit('update-coordinates', coords), and App.vue lines 46-50
EmitUpdateCoordinates(e, c, coords) ==
  [e EXCEPT !.events = Append(@, [call |-> c, name |-> "update-coordinates",
                                  loading |-> FALSE, coords |-> coords]),
            !.coordinates = coords]

\* lines 185-193, the timer pending
DisplayToast(e, message) ==
  [e EXCEPT !.toastMessage = message, !.showToast = TRUE, !.timers = @ + 1]

\* lines 16 and 51, or lines 198 and 233
ShowError(e, variant, message) ==
  IF variant = "handleSearch" THEN [e EXCEPT !.error = message]
  ELSE DisplayToast(e, message)

\* a finally block that does nothing
FinallySkipped(e, c) == e

\* lines 52-55 and 234-237
Finally(e, c) == EmitLoading([e EXCEPT !.isSearching = FALSE], c, FALSE)

\* line 30
InRange(lat, lng) == lat >= -90 /\ lat <= 90 /\ lng >= -180 /\ lng <= 180

\* lines 15-44: the call up to its return or its await
SearchStart(e, variant, c, input) ==
  IF input.shape = "empty"                                        \* line 15
    THEN [pc |-> "done",
          env |-> ShowError(e, variant, "Please enter an address or coordinates")]
  ELSE
    LET started == EmitLoading([e EXCEPT !.error = "", !.isSearching = TRUE],
                               c, TRUE)                           \* lines 20-22
    IN IF input.shape = "pair" /\ InRange(input.lat, input.lng)  \* lines 26-30
         THEN LET sent == EmitUpdateCoordinates(
                            started, c, Coords(input.lat, input.lng, TRUE))
                  reset == EmitLoading([sent EXCEPT !.isSearching = FALSE],
                                       c, FALSE)                  \* lines 37-38
              IN [pc |-> "done", env |-> Finally(reset, c)]       \* line 39
         ELSE [pc |-> "awaiting", env |-> started]                \* line 44

\* lines 45-49, then finally
SearchResolved(e, c, reply) ==
  Finally(EmitUpdateCoordinates(e, c, Coords(reply.lat, reply.lng, TRUE)), c)

\* lines 50-51, then finally
SearchRejected(e, variant, c, reply) ==
  LET message == IF reply.message = ""
                   THEN "Error finding location. Please try again."
                   ELSE reply.message
  IN Finally(ShowError(e, variant, message), c)

InitSearch ==
  /\ call \in {"handleSearch", "handleSearchToast"}
  /\ zone = [kind |-> "fixed", day |-> 0]
  /\ args = [c \in Calls |-> NoInput]
  /\ pc = [c \in Calls |-> "idle"]
  /\ outcome = [c \in Calls |-> NoReply]
  /\ env = [isSearching |-> FALSE, error |-> "", showToast |-> FALSE,
            toastMessage |-> "", timers |-> 0, events |-> <<>>,
            loading |-> FALSE, coordinates |-> DefaultCoordinates]

\* the next call of handleSearch, with the input as it stands
HandleSearchCall(c) ==
  /\ pc[c] = "idle"
  /\ \A b \in Calls : b < c => pc[b] # "idle"
  /\ \E input \in Inputs :
       LET result == SearchStart(env, call, c, input)
       IN /\ args' = [args EXCEPT ![c] = input]
          /\ pc' = [pc EXCEPT ![c] = result.pc]
          /\ env' = result.env
  /\ UNCHANGED <<call, zone, outcome>>

HandleSearch == \E c \in Calls : HandleSearchCall(c)

\* geocodeAddress resolves and the call goes on after line 44
GeocodeResolvesFor(c) ==
  /\ pc[c] = "awaiting"
  /\ \E reply \in Resolutions :
       /\ outcome' = [outcome EXCEPT ![c] = reply]
       /\ env' = SearchResolved(env, c, reply)
  /\ pc' = [pc EXCEPT ![c] = "done"]
  /\ UNCHANGED <<call, zone, args>>

GeocodeResolves == \E c \in Calls : GeocodeResolvesFor(c)

\* geocodeAddress rejects and the call goes on in its catch block
GeocodeRejectsFor(c) ==
  /\ pc[c] = "awaiting"
  /\ \E reply \in Rejections :
       /\ outcome' = [outcome EXCEPT ![c] = reply]
       /\ env' = SearchRejected(env, call, c, reply)
  /\ pc' = [pc EXCEPT ![c] = "done"]
  /\ UNCHANGED <<call, zone, args>>

GeocodeRejects == \E c \in Calls : GeocodeRejectsFor(c)

\* lines 190-192: a toast's timer runs out
HideToast ==
  /\ env.timers > 0
  /\ env' = [env EXCEPT !.showToast = FALSE, !.timers = @ - 1]
  /\ UNCHANGED <<call, zone, args, pc, outcome>>

NextSearch == HandleSearch \/ GeocodeResolves \/ GeocodeRejects \/ HideToast

SpecSearch == InitSearch /\ [][NextSearch]_vars

\* The request of geocodeAddress settles, and the event loop then runs the
\* rest of the call that awaits it.
SpecSearchFair ==
  SpecSearch /\ \A c \in Calls : WF_vars(GeocodeResolvesFor(c) \/ GeocodeRejectsFor(c))

---------------------------------------------------------------------------
(* Properties of handleSearch, checked under SpecSearchFair                *)

\* the events a call emitted, in order
RECURSIVE EventsOf(_, _)
EventsOf(events, c) ==
  IF events = <<>> THEN <<>>
  ELSE (IF Head(events).call = c THEN <<Head(events)>> ELSE <<>>)
         \o EventsOf(Tail(events), c)

RECURSIVE LoadingEvents(_)
LoadingEvents(events) ==
  IF events = <<>> THEN <<>>
  ELSE (IF Head(events).name = "loading" THEN <<Head(events).loading>> ELSE <<>>)
         \o LoadingEvents(Tail(events))

UpdatesOf(c) ==
  { i \in 1..Len(env.events) :
      env.events[i].call = c /\ env.events[i].name = "update-coordinates" }

Searched(c) == args[c].shape \in {"other", "pair"}

\* the call is over and its last loading event is loading = false
EndedLoading(c) ==
  LET loadings == LoadingEvents(EventsOf(env.events, c))
  IN /\ pc[c] = "done"
     /\ loadings # <<>>
     /\ loadings[Len(loadings)] = FALSE

\* C30: every call of handleSearch with a non-empty input eventually emits
\* loading = false as its last loading event and resets isSearching to
\* false, whether the input parses as coordinates in range, geocoding
\* succeeds, or geocoding fails; when geocoding fails, no
\* update-coordinates event is emitted.
C30_SearchEventuallyEndsLoading ==
  /\ \A c \in Calls : (Searched(c) ~> EndedLoading(c))
  /\ [][\A c \in Calls :
          pc[c] # "done" /\ pc'[c] = "done" /\ Searched(c)' =>
            ~env'.isSearching /\ ~env'.loading]_vars
  /\ [](\A c \in Calls :
          /\ pc[c] = "done" /\ Searched(c) => EndedLoading(c)
          /\ outcome[c].kind = "rejected" => UpdatesOf(c) = {})

\* C30's case: a call whose geocoding failed is over: loading = false was
\* its last event, isSearching is false, the error is shown, and no
\* coordinates were sent
C30_Witness ==
  /\ call = "handleSearch"
  /\ args[1].shape = "other"
  /\ outcome[1].kind = "rejected"
  /\ EndedLoading(1)
  /\ ~env.isSearching
  /\ env.error = "Address not found"
  /\ UpdatesOf(1) = {}

---------------------------------------------------------------------------
(* The map: src/src/components/SunMap.vue, the cache of the seasonal       *)
(* trajectories (lines 92, 176-227, 253-315, 317-371) and what             *)
(* updateSunTrajectory draws with it (lines 374-408, 527-529).  The map    *)
(* is mounted.  Coordinates are counted in ten-thousandths of a degree.    *)
(* An event handler emits update:coordinates, which the parent stores at   *)
(* once, but props.coordinates changes only when the parent renders, after *)
(* the handler has returned; the watchers run then.  No other event comes  *)
(* between, so a handler and the watchers it sets off are one step.  env   *)
(* holds props.coordinates, lastCoordinates, lastUpdate (whether           *)
(* lastUpdateTime is 0, within the throttle, or longer ago), show          *)
(* (props.showSeasonalPaths), cache (seasonalTrajectories, by its          *)
(* calculatedFor), rendered (the seasonal paths in the overlay, by their   *)
(* calculatedFor) and winter (whether the sun stays down all day at the    *)
(* northernmost position).                                                 *)

Place(set, lat, lng) == [set |-> set, lat |-> lat, lng |-> lng]

\* null, or no seasonal paths drawn
None == Place(FALSE, 0, 0)

At(coords) == Place(TRUE, coords.lat, coords.lng)

LatLng(lat, lng) == [lat |-> lat, lng |-> lng]

\* positions 0.0008, 0.006 and 0.02 degrees apart
MapPositions == { LatLng(lat, lng) : lat \in {0, 8, 60, 200}, lng \in {0, 200} }

\* lines 209-211, 256-258, 322-323: a difference above the limit in
\* latitude or in longitude
Different(a, b, limit) ==
  Abs(a.lat - b.lat) > limit \/ Abs(a.lng - b.lng) > limit

\* lines 386-394: the day's trajectory has points above the horizon
Daytime(s) == ~(s.winter /\ s.coordinates.lat = 200)

\* Lines 318-371, for coordinates that are numbers: getSeasonalTrajectories
\* then returns an object.
GetAndCacheSeasonalTrajectories(s) ==
  IF ~s.cache.set \/ Different(s.lastCoordinates, s.coordinates, 100) \* lines 321-323
    THEN [s EXCEPT !.cache = At(s.coordinates)]                  \* lines 353-359
    ELSE s

\* lines 374-408: the seasonal paths of the overlay
UpdateSunTrajectory(s) ==
  IF ~Daytime(s) THEN [s EXCEPT !.rendered = None]               \* lines 382-394
  ELSE IF s.show                                                  \* line 397
    THEN LET t == GetAndCacheSeasonalTrajectories(s)              \* line 528
         IN [t EXCEPT !.rendered = t.cache]
  ELSE [s EXCEPT !.rendered = None]

\* lines 254-282: the watcher of props.coordinates
WatchCoordinates(s, forceUpdate) ==
  IF Different(s.coordinates, s.lastCoordinates, 10) \/ forceUpdate \* lines 256-261
    THEN LET t == [s EXCEPT !.lastCoordinates = s.coordinates]    \* line 272
         IN IF s.show THEN [t EXCEPT !.cache = None] ELSE t       \* lines 278-280
    ELSE s

\* props.coordinates changes: the watchers of lines 254 and 285, in the
\* order of their creation
CoordinatesChanged(s, coords, forceUpdate) ==
  UpdateSunTrajectory(
    WatchCoordinates([s EXCEPT !.coordinates = coords], forceUpdate))

InitMap ==
  /\ call = "SunMap"
  /\ zone = [kind |-> "fixed", day |-> 0]
  /\ args = <<>>
  /\ \E winter \in BOOLEAN :
       env = [coordinates |-> LatLng(0, 0),                       \* line 124
              lastCoordinates |-> LatLng(0, 0),                   \* line 139
              lastUpdate |-> "never",                             \* line 107
              show |-> FALSE, cache |-> None, rendered |-> None,
              winter |-> winter]
  /\ pc = "mounted"
  /\ outcome = NoOutcome

\* lines 195-227 for a map centre, then the watchers; `passes` tells
\* whether more than updateThrottleMs have gone by since lastUpdateTime
HandleMapMove ==
  /\ call = "SunMap"
  /\ \E center \in MapPositions, passes \in BOOLEAN :
       /\ env.lastUpdate \in {"never", "long ago"} => passes
       /\ LET isDifferentLocation ==
                Different(center, env.lastCoordinates, 1)         \* lines 209-211
              saved == [env EXCEPT !.lastCoordinates = center,    \* lines 218-219
                                   !.lastUpdate = "within throttle"]
              handled ==
                IF isDifferentLocation /\ passes                  \* line 216
                  THEN IF env.show                                \* lines 222-225
                         THEN UpdateSunTrajectory([saved EXCEPT !.cache = None])
                         ELSE saved
                ELSE IF passes THEN [env EXCEPT !.lastUpdate = "long ago"]
                ELSE env
          IN env' = CoordinatesChanged(handled, center, FALSE)
  /\ UNCHANGED <<call, zone, args, pc, outcome>>

\* lines 177-192 for a click, then the watchers
HandleMapClick ==
  /\ call = "SunMap"
  /\ \E latlng \in MapPositions :
       env' = CoordinatesChanged([env EXCEPT !.lastCoordinates = latlng],
                                 latlng, FALSE)
  /\ UNCHANGED <<call, zone, args, pc, outcome>>

\* The parent's coordinates change from outside the map (App.vue lines
\* 46-50, a search or the geolocation, with the forceUpdate flag): the
\* watchers.
ExternalCoordinates ==
  /\ call = "SunMap"
  /\ \E coords \in MapPositions :
       env' = CoordinatesChanged(env, coords, TRUE)
  /\ UNCHANGED <<call, zone, args, pc, outcome>>

\* App.vue lines 80-82, then the watcher of lines 304-315
ToggleSeasonalPaths ==
  /\ call = "SunMap"
  /\ env' = UpdateSunTrajectory([env EXCEPT !.show = ~env.show])
  /\ UNCHANGED <<call, zone, args, pc, outcome>>

NextMap ==
  HandleMapMove \/ HandleMapClick \/ ExternalCoordinates \/ ToggleSeasonalPaths

SpecMap == InitMap /\ [][NextMap]_vars

---------------------------------------------------------------------------
(* Properties of the map, checked under SpecMap                            *)

\* C24: in SunMap, after any sequence of map moves (throttled or not), map
\* clicks, coordinate updates from outside and toggles of the seasonal
\* paths, whenever seasonal paths are rendered, the seasonal trajectories
\* used were calculated for coordinates within 0.01 degrees of the current
\* coordinates; a cached value for another location is never shown.  (The
\* cache is cleared only while the paths are shown, and its test compares
\* lastCoordinates, not calculatedFor.)
C24_RenderedSeasonalPathsAreCurrent ==
  call = "SunMap" /\ env.rendered.set =>
    ~Different(env.rendered, env.coordinates, 100)

\* a state C24 is about that the code gets right: after a click far from
\* where the map was mounted, the paths shown are those of the new place
C24_Witness ==
  /\ call = "SunMap"
  /\ env.coordinates = LatLng(200, 200)
  /\ env.rendered = At(env.coordinates)

\* What the code does keep: seasonal paths are drawn only while they are
\* switched on, and they are the cached ones.
RenderedSeasonalPathsAreTheCache ==
  call = "SunMap" /\ env.rendered.set =>
    env.show /\ env.rendered = env.cache

\* The stale paths need no stale props: with the paths switched off the
\* map was moved away, and the paths switched on again are the old ones.
StalePathsAfterToggle ==
  /\ call = "SunMap"
  /\ env.show
  /\ env.lastCoordinates = env.coordinates
  /\ env.rendered.set
  /\ Different(env.rendered, env.coordinates, 100)

---------------------------------------------------------------------------
(* The environment of calculateOptimalHouseOrientation and of              *)
(* getSunTrajectory: both read the host's clock (lines 58, 80-81, 129,     *)
(* 244-249, 282).                                                          *)

\* hours by which another host's clock is ahead of the caller's
HostClockShifts == {-1, 1}

\* The sky of the call as a host reads it whose clock is k hours ahead:
\* the instant the caller's clock calls hour h is hour h + k there (line
\* 282 sets the sample's hour on the host's clock).
HostSky(sky, k) ==
  [s \in { <<p[1], p[2] + k>> : p \in DOMAIN sky } |-> sky[<<s[1], s[2] - k>>]]

\* C23: calculateOptimalHouseOrientation with the same (lat, lng), or
\* getSunTrajectory with the same (date, lat, lng, steps), returns the
\* same result regardless of the environment (calendar year at the time of
\* the call, the host's time-zone offset).  Here: on a host whose clock is
\* an hour ahead or behind, under the same sky, the orientation is the
\* same.
C23_ResultIndependentOfEnvironment ==
  OrientationDone =>
    \A k \in HostClockShifts :
      CalculateOptimalHouseOrientation(args.lat, args.lng,
                                       HostSky(env.sky, k)).value.orientation
        = outcome.value.orientation

\* a state C23 is about that the code gets right: the sun is up at one
\* sample only, at noon, and a host an hour ahead gets the same orientation
C23_Witness ==
  /\ OrientationDone
  /\ Survivors = { <<6, 12>> }
  /\ CalculateOptimalHouseOrientation(args.lat, args.lng,
                                      HostSky(env.sky, 1)).value.orientation
       = outcome.value.orientation

\* The other half of C23, under SpecTrajectory: a host with a daylight
\* saving change later on the date's day, for which the date's day begins
\* at the same instant, the library answering the same, gets the same
\* trajectory as a host without.  (It does not: see C1 and C3.)
TrajectoryIndependentOfHostZone ==
  /\ TrajectoryDone
  /\ args.date.kind = "Date" /\ ~IsNaNNum(args.date.t)
  /\ PositiveSteps
  /\ zone.kind = "spring"
  => GetSunTrajectory([kind |-> "fixed", day |-> 0], args.date,
                      args.coord[1], args.coord[2], args.steps, env) = outcome

====
